---- MODULE Spec2Model ----
(***************************************************************************)
(* svg-to-3d-api: the generated-file store (services/FileManager.js) and   *)
(* the HTTP handlers of server.js that drive it.                           *)
(*                                                                         *)
(* Time is Date.now() in milliseconds.  The temp directory is a function   *)
(* from file paths to file contents.  File ids are the values of           *)
(* crypto.randomUUID(), named by the order in which they are drawn: the    *)
(* k-th draw is a value no earlier draw returned (the generator's          *)
(* contract), so it is named k.                                            *)
(***************************************************************************)
EXTENDS Integers, Sequences, FiniteSets, TLC

\* ------------------------------------------------------------------ bounds
MaxIds == 2
MaxTicks == 3
MaxReqs == 2
MaxPaths == 2
MaxMeshes == 2

\* --------------------------------------------------------------- constants
\* this.maxFileAge = 24 * 60 * 60 * 1000
maxFileAge == 24 * 60 * 60 * 1000

\* the instants at which the model reads the clock: each step of the clock is
\* 23h59m, then one minute, then one second, and so on in turn, so that a file
\* saved at T is seen at T + 23h59m, at T + 24h and at T + 24h00m01s
Delta(k) ==
  CASE k % 3 = 0 -> (23 * 60 + 59) * 60 * 1000
    [] k % 3 = 1 -> 60 * 1000
    [] OTHER     -> 1 * 1000

Ids == 1 .. MaxIds
Reqs == 1 .. MaxReqs
\* the exported models: the bytes the encoder of each format produces
Payloads == {[format |-> "stl", buffer |-> <<7>>],
             [format |-> "gltf", buffer |-> <<8, 9>>]}
\* keys of SvgTo3DConverter.supportedFormats
supportedFormats == {"stl", "gltf"}
FileNames == {"model"}
\* what an interrupted write leaves behind: a created, truncated file
Truncated == <<>>

VARIABLES
  files,    \* FileManager.files: the in-memory index, fileId -> entry
  disk,     \* the temp directory: filePath -> bytes
  now,      \* Date.now()
  drawn,    \* history: the ids crypto.randomUUID() has returned
  issued,   \* history: one record per saveFile call that returned an id
  removed,  \* history: the ids a caller passed to deleteFile, or clearAll hit
  ticks,    \* history: number of clock steps taken
  pc,       \* per /convert request: where its handler is suspended
  req,      \* per /convert request: the request data the handler holds
  last,     \* the latest call or response and its outcome
  twin,     \* a second FileManager given the same calls except the extra sweeps
  three     \* the three.js objects of the process, and the converter's exporters

vars == <<files, disk, now, drawn, issued, removed, ticks, pc, req, last, twin, three>>

\* ------------------------------------------------------------ FileManager

\* path.join(this.tempDir, `${fileId}.${format}`)
filePathByFormat(fileId, format) == <<0, format>>
filePath(fileId, format) == <<fileId, format>>

getMimeType(format) ==
  IF format = "obj" THEN "text/plain" ELSE "application/octet-stream"

\* the store as the methods see it
Store == [files |-> files, disk |-> disk]

EmptyMap == [x \in {} |-> 0]

\* the process at start: no three.js object, and this.exporters of the one
\* converter { stl: null, gltf: null }
EmptyHeap == [objects |-> EmptyMap, exporters |-> [stl |-> FALSE, gltf |-> FALSE]]

RemoveKey(f, k) == [x \in (DOMAIN f) \ {k} |-> f[x]]
PutKey(f, k, v) == [x \in (DOMAIN f) \cup {k} |-> IF x = k THEN v ELSE f[x]]

exists(st, path) == path \in DOMAIN st.disk

\* crypto.randomUUID(): the ids a call may return, given those drawn so far
generateFileIdReuse(used) == {id \in Ids : id <= Cardinality(used) + 1}
generateFileId(used) == {id \in Ids : id = Cardinality(used) + 1}

\* outcomes of fs.writeFileSync
WriteOutcomes == {"ok", "fail", "failTruncated"}

NewEntry(fileId, buffer, format, fileName, timestamp) ==
  [fileId    |-> fileId,
   filePath  |-> filePath(fileId, format),
   format    |-> format,
   fileName  |-> <<fileName, format>>,
   mimeType  |-> getMimeType(format),
   buffer    |-> buffer,
   createdAt |-> timestamp,
   expiresAt |-> timestamp + maxFileAge]

\* saveFile(buffer, format, fileName) with the id drawn and the write's outcome
saveFileEarlyIndex(st, fileId, buffer, format, fileName, timestamp, w) ==
  LET path == filePath(fileId, format)
      entry == NewEntry(fileId, buffer, format, fileName, timestamp)
  IN  IF w = "ok"
      THEN [files |-> PutKey(st.files, fileId, entry),
            disk  |-> PutKey(st.disk, path, buffer),
            threw |-> FALSE]
      ELSE [files |-> PutKey(st.files, fileId, entry),
            disk  |-> IF w = "failTruncated"
                      THEN PutKey(st.disk, path, Truncated) ELSE st.disk,
            threw |-> TRUE]

saveFileSwallow(st, fileId, buffer, format, fileName, timestamp, w) ==
  LET path == filePath(fileId, format)
      entry == NewEntry(fileId, buffer, format, fileName, timestamp)
  IN  [files |-> PutKey(st.files, fileId, entry),
       disk  |-> IF w = "ok" THEN PutKey(st.disk, path, buffer)
                 ELSE IF w = "failTruncated" THEN PutKey(st.disk, path, Truncated)
                 ELSE st.disk,
       threw |-> FALSE]

saveFile(st, fileId, buffer, format, fileName, timestamp, w) ==
  LET path == filePath(fileId, format)
      entry == NewEntry(fileId, buffer, format, fileName, timestamp)
  IN  IF w = "ok"
      THEN [files |-> PutKey(st.files, fileId, entry),
            disk  |-> PutKey(st.disk, path, buffer),
            threw |-> FALSE]
      ELSE [files |-> st.files,
            disk  |-> IF w = "failTruncated"
                      THEN PutKey(st.disk, path, Truncated) ELSE st.disk,
            threw |-> TRUE]

\* deleteFile(fileId); unlinkOk is whether fs.unlinkSync succeeds
deleteFileNoCatch(st, fileId, unlinkOk) ==
  IF fileId \in DOMAIN st.files
  THEN LET path == st.files[fileId].filePath
       IN  IF exists(st, path) /\ ~unlinkOk
           THEN [files |-> st.files, disk |-> st.disk, threw |-> TRUE]
           ELSE [files |-> RemoveKey(st.files, fileId),
                 disk  |-> RemoveKey(st.disk, path),
                 threw |-> FALSE]
  ELSE [files |-> st.files, disk |-> st.disk, threw |-> FALSE]

deleteFileNoGuard(st, fileId, unlinkOk) ==
  IF fileId \in DOMAIN st.files
  THEN LET path == st.files[fileId].filePath
       IN  [files |-> RemoveKey(st.files, fileId),
            disk  |-> IF exists(st, path) /\ unlinkOk
                      THEN RemoveKey(st.disk, path) ELSE st.disk,
            threw |-> FALSE]
  ELSE [files |-> st.files, disk |-> st.disk, threw |-> TRUE]

deleteFile(st, fileId, unlinkOk) ==
  IF fileId \in DOMAIN st.files
  THEN LET path == st.files[fileId].filePath
       IN  [files |-> RemoveKey(st.files, fileId),
            disk  |-> IF exists(st, path) /\ unlinkOk
                      THEN RemoveKey(st.disk, path) ELSE st.disk,
            threw |-> FALSE]
  ELSE [files |-> st.files, disk |-> st.disk, threw |-> FALSE]

\* what getFile returns: null, or the record built from the entry
NotFound ==
  [found |-> FALSE, buffer |-> <<>>, format |-> "", fileName |-> <<>>,
   mimeType |-> "", createdAt |-> 0, expiresAt |-> 0]

Found(e) ==
  [found |-> TRUE, buffer |-> e.buffer, format |-> e.format, fileName |-> e.fileName,
   mimeType |-> e.mimeType, createdAt |-> e.createdAt, expiresAt |-> e.expiresAt]

\* Date.now() > fileData.expiresAt
isExpiredAtBoundary(e, t) == t >= e.expiresAt
isExpiredEarly(e, t) == t > e.createdAt + 23 * 60 * 60 * 1000
isExpired(e, t) == t > e.expiresAt

\* getFile(fileId) at time t
getFileNoDiskCheck(st, fileId, t, unlinkOk) ==
  IF fileId \notin DOMAIN st.files
  THEN [files |-> st.files, disk |-> st.disk, threw |-> FALSE,
        branch |-> "unknown", result |-> NotFound]
  ELSE LET e == st.files[fileId]
       IN  IF isExpired(e, t)
           THEN LET d == deleteFile(st, fileId, unlinkOk)
                IN  [files |-> d.files, disk |-> d.disk, threw |-> d.threw,
                     branch |-> "expired", result |-> NotFound]
           ELSE [files |-> st.files, disk |-> st.disk, threw |-> FALSE,
                 branch |-> IF exists(st, e.filePath) THEN "found" ELSE "missing",
                 result |-> Found(e)]

getFileNoLazyDelete(st, fileId, t, unlinkOk) ==
  IF fileId \notin DOMAIN st.files
  THEN [files |-> st.files, disk |-> st.disk, threw |-> FALSE,
        branch |-> "unknown", result |-> NotFound]
  ELSE LET e == st.files[fileId]
       IN  IF isExpired(e, t)
           THEN [files |-> st.files, disk |-> st.disk, threw |-> FALSE,
                 branch |-> "expired", result |-> NotFound]
           ELSE IF ~exists(st, e.filePath)
           THEN [files |-> RemoveKey(st.files, fileId), disk |-> st.disk,
                 threw |-> FALSE, branch |-> "missing", result |-> NotFound]
           ELSE [files |-> st.files, disk |-> st.disk, threw |-> FALSE,
                 branch |-> "found", result |-> Found(e)]

getFileTouch(st, fileId, t, unlinkOk) ==
  IF fileId \notin DOMAIN st.files
  THEN [files |-> st.files, disk |-> st.disk, threw |-> FALSE,
        branch |-> "unknown", result |-> NotFound]
  ELSE LET e == st.files[fileId]
       IN  IF isExpired(e, t)
           THEN LET d == deleteFile(st, fileId, unlinkOk)
                IN  [files |-> d.files, disk |-> d.disk, threw |-> d.threw,
                     branch |-> "expired", result |-> NotFound]
           ELSE IF ~exists(st, e.filePath)
           THEN [files |-> RemoveKey(st.files, fileId), disk |-> st.disk,
                 threw |-> FALSE, branch |-> "missing", result |-> NotFound]
           ELSE [files |-> [st.files EXCEPT ![fileId].expiresAt = t + maxFileAge],
                 disk |-> st.disk, threw |-> FALSE,
                 branch |-> "found", result |-> Found(e)]

getFile(st, fileId, t, unlinkOk) ==
  IF fileId \notin DOMAIN st.files
  THEN [files |-> st.files, disk |-> st.disk, threw |-> FALSE,
        branch |-> "unknown", result |-> NotFound]
  ELSE LET e == st.files[fileId]
       IN  IF isExpired(e, t)
           THEN LET d == deleteFile(st, fileId, unlinkOk)
                IN  [files |-> d.files, disk |-> d.disk, threw |-> d.threw,
                     branch |-> "expired", result |-> NotFound]
           ELSE IF ~exists(st, e.filePath)
           THEN [files |-> RemoveKey(st.files, fileId), disk |-> st.disk,
                 threw |-> FALSE, branch |-> "missing", result |-> NotFound]
           ELSE [files |-> st.files, disk |-> st.disk, threw |-> FALSE,
                 branch |-> "found", result |-> Found(e)]

\* the ids among a set whose deletion would attempt an unlink
withFile(st, ids) == {id \in ids : exists(st, st.files[id].filePath)}

\* the ids cleanupExpiredFiles collects at time t
expiredFilesAll(st, t) == DOMAIN st.files
expiredFilesAtBoundary(st, t) ==
  {id \in DOMAIN st.files : t >= st.files[id].expiresAt}
expiredFilesLate(st, t) ==
  {id \in DOMAIN st.files : t > st.files[id].expiresAt + maxFileAge}
expiredFiles(st, t) == {id \in DOMAIN st.files : isExpired(st.files[id], t)}

\* cleanupExpiredFiles() at time t; unlinkFails: the ids whose unlink fails
cleanupExpiredFilesKeepFailed(st, t, unlinkFails) ==
  LET gone == expiredFiles(st, t) \ unlinkFails
      paths == {st.files[id].filePath : id \in gone}
  IN  [files |-> [id \in (DOMAIN st.files) \ gone |-> st.files[id]],
       disk  |-> [p \in (DOMAIN st.disk) \ paths |-> st.disk[p]]]

cleanupExpiredFiles(st, t, unlinkFails) ==
  LET gone == expiredFiles(st, t)
      paths == {st.files[id].filePath : id \in gone \ unlinkFails}
  IN  [files |-> [id \in (DOMAIN st.files) \ gone |-> st.files[id]],
       disk  |-> [p \in (DOMAIN st.disk) \ paths |-> st.disk[p]]]

\* the loop of getStats over this.files.values(): totalSize += buffer.length
RECURSIVE totalSize(_, _)
totalSize(st, ids) ==
  IF ids = {} THEN 0
  ELSE LET id == CHOOSE x \in ids : TRUE
       IN  Len(st.files[id].buffer) + totalSize(st, ids \ {id})

\* getStats() at time t
getStatsLiveOnly(st, t) ==
  [totalFiles   |-> Cardinality((DOMAIN st.files) \ expiredFiles(st, t)),
   expiredFiles |-> Cardinality({id \in DOMAIN st.files : t > st.files[id].expiresAt}),
   totalSize    |-> totalSize(st, DOMAIN st.files)]

getStats(st, t) ==
  [totalFiles   |-> Cardinality(DOMAIN st.files),
   expiredFiles |-> Cardinality({id \in DOMAIN st.files : t > st.files[id].expiresAt}),
   totalSize    |-> totalSize(st, DOMAIN st.files)]

\* clearAll()
clearAll(st, unlinkFails) ==
  LET paths == {st.files[id].filePath : id \in (DOMAIN st.files) \ unlinkFails}
  IN  [files |-> EmptyMap,
       disk  |-> [p \in (DOMAIN st.disk) \ paths |-> st.disk[p]]]

\* -------------------------------------------------------- shared actions

\* op: the call or response; id: the file id it concerned; outcome: the branch
\* it took; threw: whether it raised; status: the HTTP status sent; again:
\* whether the step before was the same call on the same id
NoLast ==
  [op |-> "none", id |-> 0, outcome |-> "", threw |-> FALSE, status |-> 0,
   again |-> FALSE]

Init ==
  /\ files = EmptyMap
  /\ disk = EmptyMap
  /\ now = 0
  /\ drawn = {}
  /\ issued = <<>>
  /\ removed = {}
  /\ ticks = 0
  /\ pc = [r \in Reqs |-> "idle"]
  /\ req = [r \in Reqs |-> EmptyMap]
  /\ last = NoLast
  /\ twin = [files |-> EmptyMap, disk |-> EmptyMap]
  /\ three = EmptyHeap

\* the clock advances
Tick ==
  /\ ticks < MaxTicks
  /\ now' = now + Delta(ticks)
  /\ ticks' = ticks + 1
  /\ last' = NoLast
  /\ UNCHANGED <<files, disk, drawn, issued, removed, pc, req, twin, three>>

\* something other than the FileManager removes a file of the temp directory
ExternalRemove ==
  \E p \in DOMAIN disk :
    /\ disk' = RemoveKey(disk, p)
    /\ last' = NoLast
    /\ UNCHANGED <<files, now, drawn, issued, removed, ticks, pc, req, twin, three>>

IssuedRecord(fileId, buffer, format, fileName, timestamp) ==
  [id |-> fileId, buffer |-> buffer, format |-> format, fileName |-> fileName,
   createdAt |-> timestamp]

\* what the unlink inside deleteFile(fileId) did
unlinkOutcome(st, fileId, unlinkOk) ==
  IF fileId \notin DOMAIN st.files THEN "absent"
  ELSE IF ~exists(st, st.files[fileId].filePath) THEN "noFile"
  ELSE IF unlinkOk THEN "unlinked" ELSE "unlinkFailed"

\* ----------------------------------- the FileManager's methods, called directly

FMSaveFile ==
  \E payload \in Payloads, fileName \in FileNames, w \in WriteOutcomes :
    \E fileId \in generateFileId(drawn) :
      LET buffer == payload.buffer
          format == payload.format
          r == saveFile(Store, fileId, buffer, format, fileName, now, w)
      IN  /\ Len(issued) < MaxIds
          /\ files' = r.files
          /\ disk' = r.disk
          /\ drawn' = drawn \cup {fileId}
          /\ issued' = IF r.threw THEN issued
                       ELSE Append(issued,
                              IssuedRecord(fileId, buffer, format, fileName, now))
          /\ last' = [NoLast EXCEPT !.op = "saveFile", !.id = fileId,
                                    !.threw = r.threw, !.outcome = w]
          /\ UNCHANGED <<now, removed, ticks, pc, req, twin, three>>

FMGetFile ==
  \E fileId \in Ids, unlinkOk \in BOOLEAN :
    LET r == getFile(Store, fileId, now, unlinkOk)
    IN  /\ unlinkOk \/ fileId \in withFile(Store, expiredFiles(Store, now))
        /\ files' = r.files
        /\ disk' = r.disk
        /\ last' = [NoLast EXCEPT !.op = "getFile", !.id = fileId,
                                  !.threw = r.threw, !.outcome = r.branch]
        /\ UNCHANGED <<now, drawn, issued, removed, ticks, pc, req, twin, three>>

FMDeleteFile ==
  \E fileId \in Ids, unlinkOk \in BOOLEAN :
    LET r == deleteFile(Store, fileId, unlinkOk)
    IN  /\ unlinkOk \/ fileId \in withFile(Store, DOMAIN files)
        /\ files' = r.files
        /\ disk' = r.disk
        /\ removed' = removed \cup {fileId}
        /\ last' = [NoLast EXCEPT !.op = "deleteFile", !.id = fileId,
                                  !.threw = r.threw,
                                  !.outcome = unlinkOutcome(Store, fileId, unlinkOk),
                                  !.again = (last.op = "deleteFile" /\ last.id = fileId)]
        /\ UNCHANGED <<now, drawn, issued, ticks, pc, req, twin, three>>

FMCleanupExpiredFiles ==
  \E unlinkFails \in SUBSET withFile(Store, expiredFiles(Store, now)) :
    LET r == cleanupExpiredFiles(Store, now, unlinkFails)
    IN  /\ files' = r.files
        /\ disk' = r.disk
        /\ last' = [NoLast EXCEPT !.op = "cleanupExpiredFiles"]
        /\ UNCHANGED <<now, drawn, issued, removed, ticks, pc, req, twin, three>>

FMClearAll ==
  \E unlinkFails \in SUBSET withFile(Store, DOMAIN files) :
    LET r == clearAll(Store, unlinkFails)
    IN  /\ files' = r.files
        /\ disk' = r.disk
        /\ removed' = removed \cup DOMAIN files
        /\ last' = [NoLast EXCEPT !.op = "clearAll"]
        /\ UNCHANGED <<now, drawn, issued, ticks, pc, req, twin, three>>

\* getStats() reads the index and the clock, and writes nothing
FMGetStats ==
  /\ last' = [NoLast EXCEPT !.op = "getStats"]
  /\ UNCHANGED <<files, disk, now, drawn, issued, removed, ticks, pc, req, twin, three>>

NextFM ==
  \/ Tick
  \/ FMGetStats
  \/ ExternalRemove
  \/ FMSaveFile
  \/ FMGetFile
  \/ FMDeleteFile
  \/ FMCleanupExpiredFiles
  \/ FMClearAll

SpecFM == Init /\ [][NextFM]_vars

\* ------------------------------------------------------------ the requests

\* a request parameter as it arrives: absent, a number (in hundredths), or
\* text that is no number
Undefined == [t |-> "undefined", v |-> 0]
NotANumber == [t |-> "nan", v |-> 0]
Num(v) == [t |-> "num", v |-> v]

\* parseFloat(x)
parseFloat(x) == IF x.t = "num" THEN x ELSE NotANumber

\* parseInt(x): the digits before the decimal point
parseInt(x) ==
  IF x.t # "num" THEN NotANumber
  ELSE IF x.v >= 0 THEN Num((x.v \div 100) * 100)
  ELSE Num(0 - (((0 - x.v) \div 100) * 100))

isNaN(x) == x.t = "nan"

\* own keys of supportedFormats and the keys every object literal inherits
ObjectPrototypeKeys == {"toString"}

\* getFormatConfig(format) is truthy
getFormatConfig(format) == format \in supportedFormats \cup ObjectPrototypeKeys

\* isValidSvg(svgData), on the classes of documents the model tells apart
isValidSvg(svgData) == svgData = "good"

\* the document an uploaded SVG file holds
fileText(file) == IF file = "svg" THEN "good" ELSE "bad"

\* a POST /convert request: req.body.svgData ("absent": undefined or empty),
\* req.file ("svg", "svgBad": image/svg+xml; "raster": another image type),
\* the body's parameters, and whether the part that carries the document (the
\* uploaded file, else the body) exceeds 5 MB
DefaultRequest ==
  [svgData |-> "good", file |-> "absent", format |-> "undefined",
   depth |-> Undefined, size |-> Undefined, curveSegments |-> Undefined,
   fileName |-> "undefined", big |-> FALSE]

ConvertInputs ==
  {DefaultRequest,
   [DefaultRequest EXCEPT !.svgData = "bad"],
   [DefaultRequest EXCEPT !.svgData = "absent"],
   [DefaultRequest EXCEPT !.svgData = "absent", !.file = "svg"],
   [DefaultRequest EXCEPT !.svgData = "absent", !.file = "raster", !.format = "gltf"],
   [DefaultRequest EXCEPT !.svgData = "absent", !.file = "raster", !.depth = Num(9)],
   [DefaultRequest EXCEPT !.file = "svgBad"],
   [DefaultRequest EXCEPT !.format = "gltf", !.fileName = "model"],
   [DefaultRequest EXCEPT !.format = "obj"],
   [DefaultRequest EXCEPT !.depth = Num(9)],
   [DefaultRequest EXCEPT !.curveSegments = Num(450)],
   [DefaultRequest EXCEPT !.big = TRUE]}

\* the heap readings of one POST /convert, before and after its cleanup pass:
\* "critical" is above MAX_MEMORY_USAGE
ConvertCases ==
  {<<rq, <<"ok", "ok">>>> : rq \in ConvertInputs}
  \cup {<<DefaultRequest, <<"critical", "ok">>>>,
        <<DefaultRequest, <<"critical", "critical">>>>,
        <<[DefaultRequest EXCEPT !.svgData = "bad"], <<"critical", "critical">>>>}

\* validateSvg(req, res, next): 400 when it answers, 0 when it calls next()
validateSvg(rq) ==
  LET svgData == IF rq.svgData # "absent" THEN rq.svgData
                 ELSE IF rq.file \in {"svg", "svgBad"} THEN fileText(rq.file)
                 ELSE "absent"
      depthNum == parseFloat(rq.depth)
      sizeNum == parseFloat(rq.size)
      segmentsNum == parseInt(rq.curveSegments)
  IN  IF rq.svgData = "absent" /\ rq.file = "raster" THEN 0
      ELSE IF svgData # "absent" /\ ~isValidSvg(svgData) THEN 400
      ELSE IF rq.depth.t # "undefined"
              /\ (isNaN(depthNum) \/ depthNum.v < 10 \/ depthNum.v > 1000) THEN 400
      ELSE IF rq.size.t # "undefined"
              /\ (isNaN(sizeNum) \/ sizeNum.v < 100 \/ sizeNum.v > 100000) THEN 400
      ELSE IF rq.curveSegments.t # "undefined"
              /\ (isNaN(segmentsNum) \/ segmentsNum.v < 400 \/ segmentsNum.v > 25600)
           THEN 400
      ELSE IF rq.format \notin {"undefined", ""} /\ ~getFormatConfig(rq.format) THEN 400
      ELSE 0

\* errorHandler(err, req, res, next): the status it sends for an error, given
\* the error's name and the phrases its message contains
errorHandler(err) ==
  IF err.name = "ValidationError" THEN 400
  ELSE IF err.name = "MulterError" THEN 400
  ELSE IF "Invalid file type" \in err.message THEN 400
  ELSE IF "No valid shapes found" \in err.message THEN 400
  ELSE IF "Failed to convert SVG to 3D" \in err.message THEN 422
  ELSE IF "Unsupported format" \in err.message THEN 400
  ELSE IF "No SVG data provided" \in err.message THEN 400
  ELSE 500

\* the errors convertSvgTo3D rejects with: its catch block prefixes the cause
ConversionErrors ==
  {[name |-> "Error", message |-> {"Failed to convert SVG to 3D", "No valid shapes found"}],
   [name |-> "Error", message |-> {"Failed to convert SVG to 3D", "Failed to parse SVG"}],
   [name |-> "Error", message |-> {"Failed to convert SVG to 3D", "export failed"}]}

\* the error convertBitmapToSvg rejects with
TraceError == [name |-> "Error", message |-> {"Failed to convert bitmap to SVG"}]

\* the error fs.writeFileSync throws
WriteError == [name |-> "Error", message |-> {"ENOSPC"}]

\* no error
NoError == [name |-> "none", message |-> {}]

\* the error multer passes on for an uploaded file over limits.fileSize
FileTooLargeError == [name |-> "MulterError", message |-> {"File too large"}]

\* the error the body parsers pass on for a body over their limit
PayloadTooLargeError ==
  [name |-> "PayloadTooLargeError", message |-> {"request entity too large"}]

\* express.json, express.urlencoded and upload.single('file'), which run before
\* validateSvg: the error they pass to the error handler for a request whose
\* uploaded file, or else whose body, is over 5 MB
parseRequest(rq) ==
  IF ~rq.big THEN NoError
  ELSE IF rq.file # "absent" THEN FileTooLargeError
  ELSE PayloadTooLargeError

\* the keys of the JSON object sent with a failure, by the place that sends it
responseBody(site) ==
  CASE site = "errorHandler" -> {"error", "message", "timestamp", "path", "method"}
    [] site = "validateSvg" -> {"error", "message"}
    [] site = "memory" -> {"error", "message", "memory"}
    [] site = "missingSource" -> {"error"}
    [] site = "tooLarge" -> {"error", "message"}
    [] OTHER -> {}

\* what the encoder selected by exportHandlers[format] returns
exportModel(format) ==
  IF format = "stl" THEN <<7>>
  ELSE IF format = "gltf" THEN <<8, 9>>
  ELSE <<1, 5>>

\* heapUsagePercent against the thresholds: at most WARNING_MEMORY_USAGE, above
\* it, above MAX_MEMORY_USAGE
MemoryLevels == {"ok", "warning", "critical"}

\* the memory check that opens the /convert handler, given heapUsagePercent as
\* read on entry and as read again after the cleanup: whether the cleanup pass
\* (gc and cleanupExpiredFiles) runs, and whether the request is rejected
memoryCheckOnce(memory, memoryAfterCleanup) ==
  [cleanup |-> memory = "critical", reject |-> memory = "critical"]

memoryCheck(memory, memoryAfterCleanup) ==
  [cleanup |-> memory = "critical",
   reject |-> memory = "critical" /\ memoryAfterCleanup = "critical"]

\* the slot a new request's handler takes
FreeSlot(r) == pc[r] = "idle" /\ \A q \in Reqs : q < r => pc[q] # "idle"

Response(op, status) == [NoLast EXCEPT !.op = op, !.status = status]

\* ------------------------------------------------------- the HTTP handlers

\* POST /convert, from validateSvg to the first await of the handler
ConvertBegin(r) ==
  /\ FreeSlot(r)
  /\ \E case \in ConvertCases :
       \E unlinkFails \in SUBSET withFile(Store, expiredFiles(Store, now)) :
         LET rq == case[1]
             memory == case[2][1]
             memoryAfterCleanup == case[2][2]
             check == memoryCheck(memory, memoryAfterCleanup)
             swept == IF check.cleanup
                      THEN cleanupExpiredFiles(Store, now, unlinkFails)
                      ELSE Store
             format == IF rq.format = "undefined" THEN "stl" ELSE rq.format
             fileName == IF rq.fileName = "undefined" THEN "model" ELSE rq.fileName
             held == [format |-> format, fileName |-> fileName]
         IN  /\ memory = "critical" \/ unlinkFails = {}
             /\ IF parseRequest(rq) # NoError
                THEN /\ last' = Response("convert", errorHandler(parseRequest(rq)))
                     /\ UNCHANGED <<files, disk, pc, req>>
                ELSE IF validateSvg(rq) = 400
                THEN /\ last' = Response("convert", 400)
                     /\ UNCHANGED <<files, disk, pc, req>>
                ELSE /\ files' = swept.files
                     /\ disk' = swept.disk
                     /\ IF check.reject
                        THEN /\ last' = Response("convert", 503)
                             /\ UNCHANGED <<pc, req>>
                        ELSE IF rq.file = "raster"
                        THEN /\ pc' = [pc EXCEPT ![r] = "tracing"]
                             /\ req' = [req EXCEPT ![r] = held]
                             /\ last' = [NoLast EXCEPT !.op = "convertBegin"]
                        ELSE IF rq.file = "absent" /\ rq.svgData = "absent"
                        THEN /\ last' = Response("convert", 400)
                             /\ UNCHANGED <<pc, req>>
                        ELSE IF rq.big
                        THEN /\ last' = Response("convert", 413)
                             /\ UNCHANGED <<pc, req>>
                        ELSE /\ pc' = [pc EXCEPT ![r] = "converting"]
                             /\ req' = [req EXCEPT ![r] = held]
                             /\ last' = [NoLast EXCEPT !.op = "convertBegin"]
             /\ UNCHANGED <<now, drawn, issued, removed, ticks, twin, three>>

\* POST /convert resumed when convertBitmapToSvg settles
ConvertTraced(r) ==
  /\ pc[r] = "tracing"
  /\ \E traced \in BOOLEAN, big \in BOOLEAN :
       IF ~traced
       THEN /\ pc' = [pc EXCEPT ![r] = "idle"]
            /\ req' = [req EXCEPT ![r] = EmptyMap]
            /\ last' = Response("convert", errorHandler(TraceError))
       ELSE IF big
       THEN /\ pc' = [pc EXCEPT ![r] = "idle"]
            /\ req' = [req EXCEPT ![r] = EmptyMap]
            /\ last' = Response("convert", 413)
       ELSE /\ pc' = [pc EXCEPT ![r] = "converting"]
            /\ req' = req
            /\ last' = [NoLast EXCEPT !.op = "convertTraced"]
  /\ UNCHANGED <<files, disk, now, drawn, issued, removed, ticks, twin, three>>

\* POST /convert resumed when convertSvgTo3D settles: save and answer
ConvertDone(r) ==
  /\ pc[r] = "converting"
  /\ pc' = [pc EXCEPT ![r] = "idle"]
  /\ req' = [req EXCEPT ![r] = EmptyMap]
  /\ \/ \E err \in ConversionErrors :
          /\ last' = Response("convert", errorHandler(err))
          /\ UNCHANGED <<files, disk, drawn, issued>>
     \/ \E w \in WriteOutcomes :
          \E fileId \in generateFileId(drawn) :
            LET format == req[r].format
                fileName == req[r].fileName
                result == exportModel(format)
                r2 == saveFile(Store, fileId, result, format, fileName, now, w)
            IN  /\ Len(issued) < MaxIds
                /\ files' = r2.files
                /\ disk' = r2.disk
                /\ drawn' = drawn \cup {fileId}
                /\ IF r2.threw
                   THEN /\ issued' = issued
                        /\ last' = [Response("convert", errorHandler(WriteError))
                                      EXCEPT !.threw = TRUE, !.outcome = w]
                   ELSE /\ issued' = Append(issued,
                              IssuedRecord(fileId, result, format, fileName, now))
                        /\ last' = [Response("convert", 200)
                                      EXCEPT !.id = fileId, !.outcome = w]
  /\ UNCHANGED <<now, removed, ticks, twin, three>>

\* GET /download/:fileId
Download ==
  \E fileId \in Ids, unlinkOk \in BOOLEAN :
    LET r == getFile(Store, fileId, now, unlinkOk)
    IN  /\ unlinkOk \/ fileId \in withFile(Store, expiredFiles(Store, now))
        /\ files' = r.files
        /\ disk' = r.disk
        /\ last' = [Response("download", IF r.result.found THEN 200 ELSE 404)
                      EXCEPT !.id = fileId, !.outcome = r.branch, !.threw = r.threw]
        /\ UNCHANGED <<now, drawn, issued, removed, ticks, pc, req, twin, three>>

\* the hourly timer of startCleanupInterval
Sweep ==
  \E unlinkFails \in SUBSET withFile(Store, expiredFiles(Store, now)) :
    LET r == cleanupExpiredFiles(Store, now, unlinkFails)
    IN  /\ files' = r.files
        /\ disk' = r.disk
        /\ last' = [NoLast EXCEPT !.op = "sweep"]
        /\ UNCHANGED <<now, drawn, issued, removed, ticks, pc, req, twin, three>>

\* checkMemoryUsage(), every MEMORY_CHECK_INTERVAL
CheckMemoryUsage ==
  \E memory \in MemoryLevels :
    \E unlinkFails \in SUBSET withFile(Store, expiredFiles(Store, now)) :
      LET r == IF memory \in {"warning", "critical"}
               THEN cleanupExpiredFiles(Store, now, unlinkFails)
               ELSE Store
      IN  /\ memory = "ok" => unlinkFails = {}
          /\ files' = r.files
          /\ disk' = r.disk
          /\ last' = [NoLast EXCEPT !.op = "checkMemoryUsage"]
          /\ UNCHANGED <<now, drawn, issued, removed, ticks, pc, req, twin, three>>

Next ==
  \/ Tick
  \/ ExternalRemove
  \/ \E r \in Reqs : ConvertBegin(r)
  \/ \E r \in Reqs : ConvertTraced(r)
  \/ \E r \in Reqs : ConvertDone(r)
  \/ Download
  \/ Sweep
  \/ CheckMemoryUsage

Spec == Init /\ [][Next]_vars

\* ------------------------------------- one POST /convert request at a time

\* the sources a request may carry: req.body.svgData and req.file
RequestSources ==
  {[svgData |-> d, file |-> f] :
     d \in {"absent", "good", "bad"}, f \in {"absent", "svg", "svgBad", "raster"}}

\* req.body.format: absent, registered, unregistered, inherited key, empty
RequestFormats == {"undefined", "stl", "gltf", "obj", "toString", ""}

\* req.body.depth, size and curveSegments, in hundredths: all absent, or one
\* of them on either side of each limit or no number at all
RequestParams ==
  LET none == [depth |-> Undefined, size |-> Undefined, curveSegments |-> Undefined]
  IN  {none}
      \cup {[none EXCEPT !.depth = v] :
              v \in {NotANumber, Num(9), Num(10), Num(1000), Num(1001)}}
      \cup {[none EXCEPT !.size = v] :
              v \in {Num(99), Num(100), Num(100000), Num(100001)}}
      \cup {[none EXCEPT !.curveSegments = v] :
              v \in {NotANumber, Num(399), Num(400), Num(450), Num(25600),
                      Num(25650), Num(25700)}}

RequestInputs ==
  {[svgData |-> src.svgData, file |-> src.file, format |-> f,
    depth |-> par.depth, size |-> par.size, curveSegments |-> par.curveSegments,
    fileName |-> "undefined", big |-> FALSE] :
     src \in RequestSources, f \in RequestFormats, par \in RequestParams}
  \cup {[DefaultRequest EXCEPT !.svgData = src.svgData, !.file = src.file,
                               !.big = TRUE] :
          src \in {x \in RequestSources : x.svgData # "absent" \/ x.file # "absent"}}

\* the heap readings of one request, before and after its cleanup pass
MemoryCases == {<<"ok", "ok">>, <<"critical", "ok">>, <<"critical", "critical">>}

\* what the handler holds of a request: the request, the options it passes on,
\* the document it converts, the stages run for it so far, the status it
\* answered with (0: none yet), the store as it was when the request came, the
\* error passed to the error handler, the keys of the failure body sent, the
\* heap readings of its memory check and whether its cleanup pass ran
Held(rq, doc) ==
  [rq |-> rq,
   format |-> IF rq.format = "undefined" THEN "stl" ELSE rq.format,
   fileName |-> IF rq.fileName = "undefined" THEN "model" ELSE rq.fileName,
   doc |-> doc, reached |-> {}, status |-> 0, memory |-> "ok",
   saved |-> Len(issued), paths |-> DOMAIN disk,
   error |-> NoError, body |-> {},
   heap |-> <<"ok", "ok">>, cleaned |-> FALSE, expiresAt |-> 0]

Answer(h, status) == [h EXCEPT !.status = status]

\* a failure answered in place by res.status(status).json(...)
AnswerAt(h, status, site) == [Answer(h, status) EXCEPT !.body = responseBody(site)]

\* a failure passed to next(): the error handler answers it
AnswerError(h, err) ==
  [AnswerAt(h, errorHandler(err), "errorHandler") EXCEPT !.error = err]

\* where the handler goes once it has looked for the request's source: to the
\* bitmap tracer, to the 400 for no source, to the 413 for a document over
\* 5 MB, or to the conversion
selectSourceUntraced(rq) ==
  IF rq.file = "absent" /\ rq.svgData = "absent" THEN "missing"
  ELSE IF rq.big THEN "tooLarge"
  ELSE "convert"

selectSourceUnchecked(rq) ==
  IF rq.file = "raster" THEN "trace"
  ELSE IF rq.big THEN "tooLarge"
  ELSE "convert"

selectSource(rq) ==
  IF rq.file = "raster" THEN "trace"
  ELSE IF rq.file = "absent" /\ rq.svgData = "absent" THEN "missing"
  ELSE IF rq.big THEN "tooLarge"
  ELSE "convert"

\* POST /convert, from validateSvg to the first await of the handler
ReqBegin(r) ==
  /\ pc[r] = "idle"
  /\ \E rq \in RequestInputs, heap \in MemoryCases :
       \E unlinkFails \in SUBSET withFile(Store, expiredFiles(Store, now)) :
         LET memory == heap[1]
             memoryAfterCleanup == heap[2]
             check == memoryCheck(memory, memoryAfterCleanup)
             swept == IF check.cleanup
                      THEN cleanupExpiredFiles(Store, now, unlinkFails)
                      ELSE Store
             doc == IF rq.file = "raster" THEN "traced"
                    ELSE IF rq.file \in {"svg", "svgBad"} THEN fileText(rq.file)
                    ELSE rq.svgData
             h == [Held(rq, doc) EXCEPT !.memory = memoryAfterCleanup,
                                        !.heap = heap, !.cleaned = check.cleanup]
         IN  /\ memory = "critical" \/ unlinkFails = {}
             /\ IF parseRequest(rq) # NoError
                THEN /\ last' = Response("convert", errorHandler(parseRequest(rq)))
                     /\ pc' = [pc EXCEPT ![r] = "answered"]
                     /\ req' = [req EXCEPT ![r] =
                                  AnswerError(Held(rq, doc), parseRequest(rq))]
                     /\ UNCHANGED <<files, disk>>
                ELSE IF validateSvg(rq) = 400
                THEN /\ last' = Response("convert", 400)
                     /\ pc' = [pc EXCEPT ![r] = "answered"]
                     /\ req' = [req EXCEPT ![r] =
                                  AnswerAt(Held(rq, doc), 400, "validateSvg")]
                     /\ UNCHANGED <<files, disk>>
                ELSE /\ files' = swept.files
                     /\ disk' = swept.disk
                     /\ IF check.reject
                        THEN /\ last' = Response("convert", 503)
                             /\ pc' = [pc EXCEPT ![r] = "answered"]
                             /\ req' = [req EXCEPT ![r] = AnswerAt(h, 503, "memory")]
                        ELSE IF selectSource(rq) = "trace"
                        THEN /\ pc' = [pc EXCEPT ![r] = "tracing"]
                             /\ req' = [req EXCEPT ![r] = [h EXCEPT !.reached = {"trace"}]]
                             /\ last' = [NoLast EXCEPT !.op = "convertBegin"]
                        ELSE IF selectSource(rq) = "missing"
                        THEN /\ last' = Response("convert", 400)
                             /\ pc' = [pc EXCEPT ![r] = "answered"]
                             /\ req' = [req EXCEPT ![r] = AnswerAt(h, 400, "missingSource")]
                        ELSE IF selectSource(rq) = "tooLarge"
                        THEN /\ last' = Response("convert", 413)
                             /\ pc' = [pc EXCEPT ![r] = "answered"]
                             /\ req' = [req EXCEPT ![r] = AnswerAt(h, 413, "tooLarge")]
                        ELSE /\ pc' = [pc EXCEPT ![r] = "converting"]
                             /\ req' = [req EXCEPT ![r] = [h EXCEPT !.reached = {"extract"}]]
                             /\ last' = [NoLast EXCEPT !.op = "convertBegin"]
             /\ UNCHANGED <<now, drawn, issued, removed, ticks, twin, three>>

\* POST /convert resumed when convertBitmapToSvg settles
ReqTraced(r) ==
  /\ pc[r] = "tracing"
  /\ \E traced \in BOOLEAN, big \in BOOLEAN :
       IF ~traced
       THEN /\ pc' = [pc EXCEPT ![r] = "answered"]
            /\ req' = [req EXCEPT ![r] = AnswerError(req[r], TraceError)]
            /\ last' = Response("convert", errorHandler(TraceError))
       ELSE IF big
       THEN /\ pc' = [pc EXCEPT ![r] = "answered"]
            /\ req' = [req EXCEPT ![r] =
                         AnswerAt([req[r] EXCEPT !.doc = "tracedTooLarge"],
                                  413, "tooLarge")]
            /\ last' = Response("convert", 413)
       ELSE /\ pc' = [pc EXCEPT ![r] = "converting"]
            /\ req' = [req EXCEPT ![r].reached = @ \cup {"extract"}]
            /\ last' = [NoLast EXCEPT !.op = "convertTraced"]
  /\ UNCHANGED <<files, disk, now, drawn, issued, removed, ticks, twin, three>>

\* the error exportModel throws for a format that supportedFormats lacks
UnsupportedFormatError ==
  [name |-> "Error", message |-> {"Failed to convert SVG to 3D", "Unsupported format"}]

\* the stages convertSvgTo3D ran before it rejected with an error
StagesBefore(err) ==
  IF "Unsupported format" \in err.message THEN {"extract", "build"}
  ELSE IF "export failed" \in err.message THEN {"extract", "build", "export"}
  ELSE {"extract"}

\* the milliseconds that pass between the Date.now() of saveFile and the
\* Date.now() of the response that follows it
Elapsed == {0, 1}

\* expiresAt of the success body: new Date(Date.now() + 24 * 60 * 60 * 1000)
reportedExpiresAt(t) == t + 24 * 60 * 60 * 1000

\* POST /convert resumed when convertSvgTo3D settles: save and answer
ReqDone(r) ==
  /\ pc[r] = "converting"
  /\ pc' = [pc EXCEPT ![r] = "answered"]
  /\ LET format == req[r].format
         fileName == req[r].fileName
         errors == IF getFormatConfig(format) THEN ConversionErrors
                   ELSE (ConversionErrors \cup {UnsupportedFormatError})
                          \ {e \in ConversionErrors : "export failed" \in e.message}
     IN  \/ \E err \in errors :
              /\ req' = [req EXCEPT ![r] =
                           [AnswerError(req[r], err)
                              EXCEPT !.reached = @ \cup StagesBefore(err)]]
              /\ last' = Response("convert", errorHandler(err))
              /\ UNCHANGED <<files, disk, drawn, issued, now>>
         \/ \E w \in WriteOutcomes, elapsed \in Elapsed :
              \E fileId \in generateFileId(drawn) :
                LET result == exportModel(format)
                    r2 == saveFile(Store, fileId, result, format, fileName, now, w)
                    done == [req[r] EXCEPT
                               !.reached = @ \cup {"extract", "build", "export", "save"}]
                IN  /\ getFormatConfig(format)
                    /\ Len(issued) < MaxIds
                    /\ files' = r2.files
                    /\ disk' = r2.disk
                    /\ drawn' = drawn \cup {fileId}
                    /\ r2.threw => elapsed = 0
                    /\ now' = now + elapsed
                    /\ IF r2.threw
                       THEN /\ issued' = issued
                            /\ req' = [req EXCEPT ![r] = AnswerError(done, WriteError)]
                            /\ last' = [Response("convert", errorHandler(WriteError))
                                          EXCEPT !.threw = TRUE, !.outcome = w]
                       ELSE /\ issued' = Append(issued,
                                  IssuedRecord(fileId, result, format, fileName, now))
                            /\ req' = [req EXCEPT ![r] =
                                 [Answer(done, 200)
                                    EXCEPT !.expiresAt = reportedExpiresAt(now')]]
                            /\ last' = [Response("convert", 200)
                                          EXCEPT !.id = fileId, !.outcome = w]
  /\ UNCHANGED <<removed, ticks, twin, three>>

\* the response has been sent: the handler's frame is gone
ReqClose(r) ==
  /\ pc[r] = "answered"
  /\ pc' = [pc EXCEPT ![r] = "idle"]
  /\ req' = [req EXCEPT ![r] = EmptyMap]
  /\ last' = NoLast
  /\ UNCHANGED <<files, disk, now, drawn, issued, removed, ticks, twin, three>>

NextReq ==
  \/ ReqBegin(1)
  \/ ReqTraced(1)
  \/ ReqDone(1)
  \/ ReqClose(1)

SpecReq == Init /\ [][NextReq]_vars

\* ------------------------------- the FileManager left running with its timer

\* the clock advances: without end while an entry of the index has yet to expire
TickLive ==
  /\ \/ ticks < MaxTicks
     \/ \E id \in DOMAIN files : ~isExpired(files[id], now)
  /\ now' = now + Delta(ticks)
  /\ ticks' = ticks + 1
  /\ last' = NoLast
  /\ UNCHANGED <<files, disk, drawn, issued, removed, pc, req, twin, three>>

NextLive ==
  \/ TickLive
  \/ FMSaveFile
  \/ FMGetFile
  \/ Sweep

\* setInterval fires the sweep again and again, and time passes
SpecLive == Init /\ [][NextLive]_vars /\ WF_vars(TickLive) /\ WF_vars(Sweep)

\* ------------------- two FileManagers given the same saveFile and getFile calls

\* saveFile on both, with the same bytes, the same id and the same write outcome
TwinSaveFile ==
  \E payload \in Payloads, fileName \in FileNames, w \in WriteOutcomes :
    \E fileId \in generateFileId(drawn) :
      LET buffer == payload.buffer
          format == payload.format
          r == saveFile(Store, fileId, buffer, format, fileName, now, w)
          r0 == saveFile(twin, fileId, buffer, format, fileName, now, w)
      IN  /\ Len(issued) < MaxIds
          /\ files' = r.files
          /\ disk' = r.disk
          /\ twin' = [files |-> r0.files, disk |-> r0.disk]
          /\ drawn' = drawn \cup {fileId}
          /\ issued' = IF r.threw THEN issued
                       ELSE Append(issued,
                              IssuedRecord(fileId, buffer, format, fileName, now))
          /\ last' = [NoLast EXCEPT !.op = "saveFile", !.id = fileId,
                                    !.threw = r.threw, !.outcome = w]
          /\ UNCHANGED <<now, removed, ticks, pc, req, three>>

\* getFile of the same id on both; the unlinks of the two succeed or fail apart
TwinGetFile ==
  \E fileId \in Ids, unlinkOk \in BOOLEAN, unlinkOk0 \in BOOLEAN :
    LET r == getFile(Store, fileId, now, unlinkOk)
        r0 == getFile(twin, fileId, now, unlinkOk0)
    IN  /\ unlinkOk \/ fileId \in withFile(Store, expiredFiles(Store, now))
        /\ unlinkOk0 \/ fileId \in withFile(twin, expiredFiles(twin, now))
        /\ files' = r.files
        /\ disk' = r.disk
        /\ twin' = [files |-> r0.files, disk |-> r0.disk]
        /\ last' = [NoLast EXCEPT !.op = "getFile", !.id = fileId,
                                  !.threw = r.threw, !.outcome = r.branch]
        /\ UNCHANGED <<now, drawn, issued, removed, ticks, pc, req, three>>

\* a file of the temp directory is removed from outside, under both
TwinExternalRemove ==
  \E p \in (DOMAIN disk) \cup (DOMAIN twin.disk) :
    /\ disk' = [q \in (DOMAIN disk) \ {p} |-> disk[q]]
    /\ twin' = [twin EXCEPT !.disk = [q \in (DOMAIN twin.disk) \ {p} |-> twin.disk[q]]]
    /\ last' = NoLast
    /\ UNCHANGED <<files, now, drawn, issued, removed, ticks, pc, req, three>>

\* the first FileManager alone also gets cleanupExpiredFiles calls, at any point
NextTwin ==
  \/ Tick
  \/ TwinExternalRemove
  \/ TwinSaveFile
  \/ TwinGetFile
  \/ FMCleanupExpiredFiles

SpecTwin == Init /\ [][NextTwin]_vars

\* the FileManager alone with the temp directory: its four methods and the
\* clock, and nothing else touching the directory
NextOwned ==
  \/ Tick
  \/ FMSaveFile
  \/ FMGetFile
  \/ FMDeleteFile
  \/ FMCleanupExpiredFiles

SpecOwned == Init /\ [][NextOwned]_vars

\* ------------------------------------------------ one conversion at a time

\* the paths SVGLoader.parse yields, told apart by what the converter reads of
\* them: userData.style.fill, the number of shapes SVGLoader.createShapes makes
\* of the path, and whether createShapes throws on it
PathKinds ==
  {[fill |-> "#f00", subpaths |-> 1, malformed |-> FALSE],
   [fill |-> "none", subpaths |-> 1, malformed |-> FALSE],
   [fill |-> "undefined", subpaths |-> 2, malformed |-> FALSE],
   [fill |-> "#f00", subpaths |-> 0, malformed |-> FALSE],
   [fill |-> "#f00", subpaths |-> 1, malformed |-> TRUE]}

\* the documents handed to convertSvgTo3D: one that SVGLoader.parse throws on,
\* and those it parses into at most MaxPaths paths
Documents ==
  {[parses |-> FALSE, paths |-> <<>>]}
  \cup {[parses |-> TRUE, paths |-> p] :
          p \in UNION {[1 .. n -> PathKinds] : n \in 0 .. MaxPaths}}

\* the options of convertSvgTo3D: depth in hundredths, as passed by the caller
ConversionOptions ==
  [format : {"stl", "gltf", "obj"}, depth : {Num(200), Num(0)},
   defaultColor : {"#FFA500", "none"},
   drawFillShapes : BOOLEAN, drawStrokes : BOOLEAN]

\* a JavaScript variable holding null, or holding a value
Null == [null |-> TRUE, val |-> <<>>]
Ref(v) == [null |-> FALSE, val |-> v]

\* one entry of the shapes array: the path it came from (0: the fallback
\* square), its colour and its depth
ShapeData(path, color, depth) == [path |-> path, color |-> color, depth |-> depth]

\* the shapes createShapesFromSvg pushes when the document has no path
noFallbackShape(options) == <<>>

fallbackShape(options) == <<ShapeData(0, options.defaultColor, options.defaultDepth)>>

\* the shapes createShapesFromSvg pushes for the path at one index: drawStrokes
\* is destructured and never read
pathShapesWithStrokes(path, index, options) ==
  LET fillColor == IF path.fill # "undefined" THEN path.fill ELSE options.defaultColor
      shape == ShapeData(index, fillColor, options.defaultDepth)
      filled == IF options.drawFillShapes /\ fillColor \notin {"undefined", "none"}
                   /\ ~path.malformed
                THEN [k \in 1 .. path.subpaths |-> shape]
                ELSE <<>>
  IN  IF options.drawStrokes THEN Append(filled, shape) ELSE filled

pathShapes(path, index, options) ==
  LET fillColor == IF path.fill # "undefined" THEN path.fill ELSE options.defaultColor
  IN  IF options.drawFillShapes /\ fillColor \notin {"undefined", "none"}
         /\ ~path.malformed
      THEN [k \in 1 .. path.subpaths |-> ShapeData(index, fillColor, options.defaultDepth)]
      ELSE <<>>

\* svgParsed.paths.forEach(...), from the path at index on
RECURSIVE shapesOfPaths(_, _, _)
shapesOfPaths(paths, index, options) ==
  IF index > Len(paths) THEN <<>>
  ELSE pathShapes(paths[index], index, options)
         \o shapesOfPaths(paths, index + 1, options)

\* createShapesFromSvg(svgData, options)
createShapesFromSvg(svgData, options) ==
  IF ~svgData.parses THEN [threw |-> TRUE, shapes |-> <<>>]
  ELSE IF Len(svgData.paths) = 0
  THEN [threw |-> FALSE, shapes |-> fallbackShape(options)]
  ELSE [threw |-> FALSE, shapes |-> shapesOfPaths(svgData.paths, 1, options)]

\* the options convertSvgTo3D passes to createShapesFromSvg
ExtractOptions(options) ==
  [defaultColor |-> options.defaultColor, defaultDepth |-> options.depth,
   drawFillShapes |-> options.drawFillShapes, drawStrokes |-> options.drawStrokes]

\* the indices of the shapes create3DModel makes a mesh of
extruded(shapes) ==
  {i \in 1 .. Len(shapes) : shapes[i].depth.t = "num" /\ shapes[i].depth.v > 0}

\* a geometry and a material, as created
Live == [geometry |-> "live", material |-> "live"]
Disposed == [geometry |-> "disposed", material |-> "disposed"]

\* the objects of the process that the call in slot call created
createdBy(call) == {id \in DOMAIN three.objects : id[1] = call}

\* create3DModel(shapes, options) run by the call in slot call: failAt is the
\* mesh whose construction throws (0: none).  The group's children, and the
\* geometries and materials created so far, named by call and mesh number; when
\* it throws the group is not returned
create3DModel(call, shapes, failAt) ==
  LET n == Cardinality(extruded(shapes))
      made == IF failAt = 0 THEN n ELSE failAt - 1
  IN  [threw |-> failAt # 0,
       group |-> IF failAt = 0 THEN Ref([k \in 1 .. n |-> <<call, k>>]) ELSE Null,
       resources |-> [id \in {<<call, k>> : k \in 1 .. made} |-> Live]]

\* a cleanup that walks every object of the process
cleanupMemoryEverything(shapes, modelGroup, resources) ==
  IF modelGroup.null THEN [group |-> modelGroup, resources |-> resources]
  ELSE [group |-> Ref(<<>>),
        resources |-> [k \in DOMAIN resources |-> Disposed]]

\* cleanupMemory(shapes, modelGroup): the resources after it, and the group.
\* Shape has no dispose method, so the shapes are only visited; the objects
\* disposed are those modelGroup.traverse reaches
cleanupMemory(shapes, modelGroup, resources) ==
  IF modelGroup.null THEN [group |-> modelGroup, resources |-> resources]
  ELSE [group |-> Ref(<<>>),
        resources |-> [k \in DOMAIN resources |->
                         IF \E i \in DOMAIN modelGroup.val : modelGroup.val[i] = k
                         THEN Disposed ELSE resources[k]]]

\* how the encoder of exportHandlers[format] delivers its result: GLTFExporter
\* through a callback, the others on return
exportHandler(format) == IF format = "gltf" THEN "callback" ELSE "return"

\* this.exporters after the handler of a format ran: exporters[format] ||= new ...
cachedExporters(exporters, format) ==
  IF format \in DOMAIN exporters THEN [exporters EXCEPT ![format] = TRUE]
  ELSE exporters

\* the frame of one convertSvgTo3D call: its arguments, its local variables,
\* the promise of exportModel it awaits, the encoder's output so far, what the
\* caller has been given, and as history the stages in the order they started
\* and ended
Frame(svgData, options) ==
  [svgData |-> svgData, options |-> options,
   shapes |-> Null, modelGroup |-> Null,
   promise |-> "none", cause |-> "none", output |-> <<>>,
   outcome |-> [kind |-> "pending", bytes |-> <<>>, message |-> {}],
   log |-> <<>>]

\* the catch and finally blocks of convertSvgTo3D: the error is rewrapped, the
\* cleanup runs, the rejection reaches the caller
Rejects(f, cause) ==
  [f EXCEPT !.modelGroup = cleanupMemory(f.shapes, f.modelGroup, EmptyMap).group,
            !.cause = cause,
            !.outcome = [kind |-> "error", bytes |-> <<>>,
                         message |-> {"Failed to convert SVG to 3D", cause}],
            !.log = @ \o <<"release", "released", "settled">>]

\* return result, then the finally block
Returns(f, result) ==
  [f EXCEPT !.modelGroup = cleanupMemory(f.shapes, f.modelGroup, EmptyMap).group,
            !.outcome = [kind |-> "result", bytes |-> result, message |-> {}],
            !.log = @ \o <<"release", "released", "settled">>]

\* the objects of the process after the finally block of a call ran
Released(f, objects) == cleanupMemory(f.shapes, f.modelGroup, objects).resources

\* the await of convertSvgTo3D resumes once the promise of exportModel settled
promiseSettledEarly(f) == TRUE

promiseSettled(f) == f.promise \in {"fulfilled", "rejected"}

\* convertSvgTo3D(svgData, options) of a document and options from the given
\* sets, up to its await or to its early rejection
convertSvgTo3D(r, documents, conversionOptions) ==
  /\ pc[r] = "idle"
  /\ \E svgData \in documents, options \in conversionOptions :
       LET e == createShapesFromSvg(svgData, ExtractOptions(options))
           sync == exportHandler(options.format) = "return"
       IN  \E failAt \in 0 .. Cardinality(extruded(e.shapes)), encoded \in BOOLEAN :
             LET b == create3DModel(r, e.shapes, failAt)
                 f1 == [Frame(svgData, options) EXCEPT !.log = <<"extract">>]
                 f2 == [f1 EXCEPT !.shapes = Ref(e.shapes),
                                  !.log = @ \o <<"extracted">>]
                 f3 == [f2 EXCEPT !.log = @ \o <<"build">>]
                 f4 == [f3 EXCEPT !.modelGroup = b.group,
                                  !.log = @ \o <<"built", "export">>]
                 built == b.resources @@ three.objects
             IN  /\ (encoded \/ (~e.threw /\ Len(e.shapes) > 0 /\ failAt = 0
                                  /\ getFormatConfig(options.format) /\ sync))
                 /\ IF e.threw
                    THEN /\ req' = [req EXCEPT ![r] = Rejects(f1, "Failed to parse SVG")]
                         /\ pc' = [pc EXCEPT ![r] = "returned"]
                         /\ three' = [three EXCEPT !.objects = Released(f1, @)]
                    ELSE IF Len(e.shapes) = 0
                    THEN /\ req' = [req EXCEPT ![r] =
                                      Rejects(f2, "No valid shapes found")]
                         /\ pc' = [pc EXCEPT ![r] = "returned"]
                         /\ three' = [three EXCEPT !.objects = Released(f2, @)]
                    ELSE IF b.threw
                    THEN /\ req' = [req EXCEPT ![r] = Rejects(f3, "build failed")]
                         /\ pc' = [pc EXCEPT ![r] = "returned"]
                         /\ three' = [three EXCEPT !.objects = Released(f3, built)]
                    ELSE /\ pc' = [pc EXCEPT ![r] = "exporting"]
                         /\ req' = [req EXCEPT ![r] =
                              IF ~getFormatConfig(options.format)
                              THEN [f4 EXCEPT !.promise = "rejected",
                                              !.cause = "Unsupported format",
                                              !.log = @ \o <<"exported">>]
                              ELSE IF ~sync THEN [f4 EXCEPT !.promise = "pending"]
                              ELSE IF encoded
                              THEN [f4 EXCEPT !.promise = "fulfilled",
                                              !.output = exportModel(options.format),
                                              !.log = @ \o <<"exported">>]
                              ELSE [f4 EXCEPT !.promise = "rejected",
                                              !.cause = "export failed",
                                              !.log = @ \o <<"exported">>]]
                         /\ three' = [objects |-> built,
                                     exporters |->
                                       IF getFormatConfig(options.format)
                                       THEN cachedExporters(three.exporters,
                                                            options.format)
                                       ELSE three.exporters]
  /\ last' = [NoLast EXCEPT !.op = "convertSvgTo3D"]
  /\ UNCHANGED <<files, disk, now, drawn, issued, removed, ticks, twin>>

ConvStart(r) == convertSvgTo3D(r, Documents, ConversionOptions)

\* GLTFExporter calls back: onDone resolves the promise with the whole buffer,
\* onError rejects it
EncoderCallback(r) ==
  /\ pc[r] = "exporting"
  /\ req[r].promise = "pending"
  /\ \E encoded \in BOOLEAN :
       req' = [req EXCEPT ![r] =
                 IF encoded
                 THEN [@ EXCEPT !.promise = "fulfilled",
                                !.output = exportModel(req[r].options.format),
                                !.log = @ \o <<"exported">>]
                 ELSE [@ EXCEPT !.promise = "rejected", !.cause = "export failed",
                                !.log = @ \o <<"exported">>]]
  /\ last' = [NoLast EXCEPT !.op = "encoderCallback"]
  /\ UNCHANGED <<files, disk, now, drawn, issued, removed, ticks, pc, twin, three>>

\* convertSvgTo3D resumed after its await
ConvResume(r) ==
  /\ pc[r] = "exporting"
  /\ promiseSettled(req[r])
  /\ req' = [req EXCEPT ![r] =
               IF @.promise = "rejected" THEN Rejects(@, @.cause)
               ELSE Returns(@, @.output)]
  /\ three' = [three EXCEPT !.objects = Released(req[r], @)]
  /\ pc' = [pc EXCEPT ![r] = "returned"]
  /\ last' = [NoLast EXCEPT !.op = "convertSvgTo3DResumed"]
  /\ UNCHANGED <<files, disk, now, drawn, issued, removed, ticks, twin>>

\* the caller has taken the result or the error: the frame is gone, and what
\* the call created can no longer be reached
ConvClose(r) ==
  /\ pc[r] = "returned"
  /\ pc' = [pc EXCEPT ![r] = "idle"]
  /\ req' = [req EXCEPT ![r] = EmptyMap]
  /\ three' = [three EXCEPT !.objects =
                [id \in (DOMAIN @) \ createdBy(r) |-> @[id]]]
  /\ last' = NoLast
  /\ UNCHANGED <<files, disk, now, drawn, issued, removed, ticks, twin>>

NextConv ==
  \/ ConvStart(1)
  \/ EncoderCallback(1)
  \/ ConvResume(1)
  \/ ConvClose(1)

SpecConv == Init /\ [][NextConv]_vars

\* --------------------------------------- conversions in flight side by side

\* the documents and options of the concurrent calls: a document that does not
\* parse, one without a path, one of a single shape and one of two; each format
ConcurrentDocuments ==
  {d \in Documents :
     /\ Len(d.paths) <= 1
     /\ \A i \in DOMAIN d.paths :
          ~d.paths[i].malformed /\ d.paths[i].subpaths > 0 /\ d.paths[i].fill # "none"}

ConcurrentOptions ==
  {o \in ConversionOptions :
     /\ o.depth = Num(200) /\ o.defaultColor = "#FFA500"
     /\ o.drawFillShapes /\ ~o.drawStrokes}

\* the one converter of server.js takes a call while others are suspended at
\* their await
ConcurrentStart(r) == convertSvgTo3D(r, ConcurrentDocuments, ConcurrentOptions)

NextShared ==
  \/ \E r \in Reqs : ConcurrentStart(r)
  \/ \E r \in Reqs : EncoderCallback(r)
  \/ \E r \in Reqs : ConvResume(r)
  \/ \E r \in Reqs : ConvClose(r)

SpecShared == Init /\ [][NextShared]_vars

\* ------------------------------------------------------------- properties

IssuedIds == {issued[i].id : i \in 1 .. Len(issued)}

\* the backing file written for an issued record is in the temp directory
OnDisk(s) == filePath(s.id, s.format) \in DOMAIN disk

\* no file of the id is in the temp directory
NoFileOf(fileId) == \A p \in DOMAIN disk : p[1] # fileId

\* what getFile(fileId) would return now
Retrieve(fileId, unlinkOk) == getFile(Store, fileId, now, unlinkOk).result

\* 23h59m and 24h00m01s in milliseconds
JustBefore == (23 * 60 + 59) * 60 * 1000
JustAfter == (24 * 60 * 60 + 1) * 1000

\* the entries and files other than those of fileId are the same in st as now
OthersUnchanged(st, fileId) ==
  /\ \A o \in (DOMAIN files) \ {fileId} : o \in DOMAIN st.files /\ st.files[o] = files[o]
  /\ \A p \in DOMAIN disk : p[1] # fileId => p \in DOMAIN st.disk /\ st.disk[p] = disk[p]

\* C1 (round trip): for every id that saveFile returned for bytes b, as long as
\* the entry has not expired, its backing file is on disk and no caller deleted
\* that id, getFile returns a record whose buffer is b, whatever was saved, read,
\* deleted or swept for other ids in between.
C1_RoundTrip ==
  \A i \in 1 .. Len(issued) : \A unlinkOk \in BOOLEAN :
    LET s == issued[i]
    IN  (s.id \notin removed /\ now <= s.createdAt + maxFileAge /\ OnDisk(s))
          => /\ Retrieve(s.id, unlinkOk).found
             /\ Retrieve(s.id, unlinkOk).buffer = s.buffer

\* a file is read back at the last instant of its life after another file was
\* saved and deleted
C1_Witness ==
  /\ last.op = "getFile" /\ last.outcome = "found"
  /\ \E i, j \in 1 .. Len(issued) :
       /\ issued[i].id = last.id
       /\ now = issued[i].createdAt + maxFileAge
       /\ issued[j].id # last.id
       /\ issued[j].id \in removed

\* C2 (expiry boundary): a file saved at T whose backing file is intact is
\* returned by getFile at every time up to T + 23h59m, is not found at any time
\* from T + 24h00m01s on, and no record is returned later than its createdAt + 24h.
C2_ExpiryBoundary ==
  \A i \in 1 .. Len(issued) : \A unlinkOk \in BOOLEAN :
    LET s == issued[i]
        r == Retrieve(s.id, unlinkOk)
    IN  /\ (s.id \notin removed /\ OnDisk(s) /\ now <= s.createdAt + JustBefore)
             => r.found
        /\ now >= s.createdAt + JustAfter => ~r.found
        /\ r.found => r.createdAt = s.createdAt /\ now <= r.createdAt + maxFileAge

\* getFile answers null at exactly T + 24h00m01s for a file whose backing file is
\* still there
C2_Witness ==
  /\ last.op = "getFile" /\ last.outcome = "expired"
  /\ \E i \in 1 .. Len(issued) :
       /\ issued[i].id = last.id
       /\ issued[i].id \notin removed
       /\ now = issued[i].createdAt + JustAfter

\* C3 (uniqueness): the ids returned by saveFile are pairwise distinct, also
\* when an earlier file was deleted or expired before the next save, so no save
\* replaces the index entry or the backing file of another stored file.
C3_Uniqueness ==
  /\ \A i, j \in 1 .. Len(issued) :
       i # j => /\ issued[i].id # issued[j].id
                /\ filePath(issued[i].id, issued[i].format)
                     # filePath(issued[j].id, issued[j].format)
  /\ \A i \in 1 .. Len(issued) :
       LET s == issued[i]
       IN  /\ s.id \in DOMAIN files
                => files[s.id].buffer = s.buffer /\ files[s.id].createdAt = s.createdAt
           /\ OnDisk(s) => disk[filePath(s.id, s.format)] = s.buffer

\* a second save made after the first file expired and was swept
C3_Witness ==
  /\ last.op = "saveFile" /\ ~last.threw
  /\ Len(issued) = 2
  /\ issued[2].id = last.id
  /\ issued[1].id \notin DOMAIN files
  /\ issued[2].createdAt > issued[1].createdAt + maxFileAge

\* C4 (no lost entries): no step of the server (a /convert request at any of
\* its stages, a /download, the hourly sweep, the memory monitor) removes or
\* alters an index entry that is not expired and whose backing file is on disk,
\* and none removes that backing file.
C4_NoLostEntries ==
  [][\A id \in DOMAIN files :
       (~isExpired(files[id], now) /\ exists(Store, files[id].filePath))
         => /\ id \in DOMAIN files'
            /\ files'[id] = files[id]
            /\ files[id].filePath \in DOMAIN disk' \/ last'.op = "none"]_vars

\* a cleanup pass ran while a conversion was in flight: it removed the expired
\* file and kept the live one
C4_Witness ==
  /\ last.op \in {"sweep", "checkMemoryUsage"}
  /\ \E r \in Reqs : pc[r] = "converting"
  /\ \E i, j \in 1 .. Len(issued) :
       /\ issued[i].id \notin DOMAIN files
       /\ now > issued[i].createdAt + maxFileAge
       /\ issued[j].id \in DOMAIN files
       /\ OnDisk(issued[j])

\* C5 (save atomicity): when the write of saveFile fails, saveFile throws and
\* leaves the index as it was; every index entry belongs to an id whose write
\* completed.
C5_SaveAtomicity ==
  /\ DOMAIN files \subseteq IssuedIds
  /\ (last.op = "saveFile" /\ last.outcome # "ok")
       => last.threw /\ last.id \notin DOMAIN files
  /\ (last.op = "saveFile" /\ last.outcome = "ok")
       => ~last.threw /\ last.id \in DOMAIN files /\ ~NoFileOf(last.id)
  /\ \A payload \in Payloads, fileId \in generateFileId(drawn),
        w \in WriteOutcomes \ {"ok"} :
       LET r == saveFile(Store, fileId, payload.buffer, payload.format, "model", now, w)
       IN  r.threw /\ r.files = files

\* a save failed, leaving a truncated file behind, while another file is stored
C5_Witness ==
  /\ last.op = "saveFile" /\ last.threw /\ last.outcome = "failTruncated"
  /\ ~NoFileOf(last.id)
  /\ last.id \notin DOMAIN files
  /\ DOMAIN files # {}

\* C6 (no dangling reference): a success response of POST /convert carries the
\* id of a file saved by that request from the conversion's bytes, and getFile
\* of that id returns those bytes at that moment; a request whose save fails
\* carries no file id and ends in an error response.
C6_NoDanglingReference ==
  /\ (last.op = "convert" /\ last.status = 200)
       => /\ ~last.threw
          /\ \E i \in 1 .. Len(issued) :
               /\ issued[i].id = last.id
               /\ issued[i].createdAt = now
               /\ issued[i].buffer = exportModel(issued[i].format)
               /\ \A unlinkOk \in BOOLEAN :
                    /\ Retrieve(last.id, unlinkOk).found
                    /\ Retrieve(last.id, unlinkOk).buffer = issued[i].buffer
  /\ (last.op = "convert" /\ last.status # 200) => last.id = 0
  /\ (last.op = "convert" /\ last.outcome \in WriteOutcomes \ {"ok"})
       => last.threw /\ last.status >= 400
  /\ DOMAIN files \subseteq IssuedIds

\* a request whose save failed was answered with an error after an earlier
\* request had succeeded
C6_Witness ==
  /\ last.op = "convert" /\ last.threw /\ last.status = 500
  /\ Len(issued) = 1
  /\ issued[1].id \in DOMAIN files

\* C7 (missing backing file): getFile for an unexpired entry whose backing file
\* is gone returns null without throwing and removes that entry alone, and
\* GET /download/:fileId answers 404.
C7_MissingBackingFile ==
  /\ \A id \in DOMAIN files : \A unlinkOk \in BOOLEAN :
       (~isExpired(files[id], now) /\ ~exists(Store, files[id].filePath))
         => LET r == getFile(Store, id, now, unlinkOk)
            IN  /\ ~r.threw
                /\ ~r.result.found
                /\ id \notin DOMAIN r.files
                /\ r.disk = disk
                /\ OthersUnchanged(r, id)
  /\ (last.op = "download" /\ last.outcome = "missing")
       => last.status = 404 /\ ~last.threw /\ last.id \notin DOMAIN files

\* a download of an unexpired file whose backing file had been removed
C7_Witness ==
  /\ last.op = "download" /\ last.outcome = "missing" /\ last.status = 404
  /\ \E i \in 1 .. Len(issued) :
       /\ issued[i].id = last.id
       /\ now <= issued[i].createdAt + maxFileAge
       /\ now > issued[i].createdAt

\* C8 as stated (lazy expiry on read): after getFile met an expired entry, both
\* the index entry and the backing file of that id are gone.
C8_Original ==
  (last.op = "getFile" /\ last.outcome = "expired")
    => last.id \notin DOMAIN files /\ NoFileOf(last.id)

\* C8 as amended: getFile for an expired entry returns null without throwing and
\* removes the index entry; it removes the backing file too unless the unlink
\* fails, in which case the file stays; every other entry and file is unchanged.
C8_LazyExpiry ==
  /\ \A id \in DOMAIN files : \A unlinkOk \in BOOLEAN :
       isExpired(files[id], now)
         => LET r == getFile(Store, id, now, unlinkOk)
            IN  /\ ~r.threw
                /\ ~r.result.found
                /\ id \notin DOMAIN r.files
                /\ unlinkOk => files[id].filePath \notin DOMAIN r.disk
                /\ ~unlinkOk => r.disk = disk
                /\ OthersUnchanged(r, id)
  /\ (last.op = "getFile" /\ last.outcome = "expired")
       => ~last.threw /\ last.id \notin DOMAIN files

\* getFile met an expired entry and removed it and its file, another entry stays
C8_Witness ==
  /\ last.op = "getFile" /\ last.outcome = "expired"
  /\ last.id \in IssuedIds
  /\ NoFileOf(last.id)
  /\ DOMAIN files # {}

\* C9 (idempotent deletion): for every id, stored or not, deleteFile(id) twice
\* throws on neither call, the second call leaves the store as the first left
\* it, and getFile(id) finds nothing after either call.
C9_IdempotentDeletion ==
  /\ \A id \in Ids : \A ok1, ok2, ok3 \in BOOLEAN :
       LET a == deleteFile(Store, id, ok1)
           b == deleteFile(a, id, ok2)
       IN  /\ ~a.threw /\ ~b.threw
           /\ b.files = a.files /\ b.disk = a.disk
           /\ ~getFile(a, id, now, ok3).result.found
           /\ ~getFile(b, id, now, ok3).result.found
  /\ last.op = "deleteFile"
       => ~last.threw /\ last.id \notin DOMAIN files
  /\ (last.op = "deleteFile" /\ last.again) => last.outcome = "absent"

\* deleteFile was called a second time in a row on an id that had been issued
C9_Witness ==
  /\ last.op = "deleteFile" /\ last.again
  /\ last.id \in IssuedIds
  /\ last.outcome = "absent"

\* C10 (best-effort disk deletion): when the unlink inside deleteFile fails,
\* deleteFile does not throw and still removes the index entry.
C10_BestEffortUnlink ==
  /\ \A id \in DOMAIN files :
       exists(Store, files[id].filePath)
         => LET r == deleteFile(Store, id, FALSE)
            IN  ~r.threw /\ id \notin DOMAIN r.files /\ r.disk = disk
  /\ (last.op = "deleteFile" /\ last.outcome = "unlinkFailed")
       => ~last.threw /\ last.id \notin DOMAIN files /\ ~NoFileOf(last.id)

\* a deleteFile whose unlink failed: the entry is gone, the file is still there
C10_Witness ==
  /\ last.op = "deleteFile" /\ last.outcome = "unlinkFailed"
  /\ last.id \notin DOMAIN files
  /\ ~NoFileOf(last.id)

\* C11 (sweep postcondition): right after cleanupExpiredFiles ran at time now,
\* the index holds no entry with now > expiresAt, whether or not the unlinks
\* succeeded, and every entry with now <= expiresAt is still in the index with
\* the same contents, its backing file untouched.
C11_SweepPostcondition ==
  /\ \A unlinkFails \in SUBSET withFile(Store, expiredFiles(Store, now)) :
       LET r == cleanupExpiredFiles(Store, now, unlinkFails)
       IN  /\ \A id \in DOMAIN r.files : ~(now > r.files[id].expiresAt)
           /\ \A id \in DOMAIN files :
                now <= files[id].expiresAt
                  => /\ id \in DOMAIN r.files
                     /\ r.files[id] = files[id]
                     /\ exists(Store, files[id].filePath)
                          => /\ exists(r, files[id].filePath)
                             /\ r.disk[files[id].filePath] = disk[files[id].filePath]
  /\ last.op = "cleanupExpiredFiles"
       => \A id \in DOMAIN files : ~(now > files[id].expiresAt)

\* a sweep removed an expired entry whose unlink failed and kept an entry that
\* has not expired
C11_Witness ==
  /\ last.op = "cleanupExpiredFiles"
  /\ \E i, j \in 1 .. Len(issued) :
       /\ issued[i].id \notin DOMAIN files
       /\ issued[i].id \notin removed
       /\ now > issued[i].createdAt + maxFileAge
       /\ OnDisk(issued[i])
       /\ issued[j].id \in DOMAIN files
       /\ now <= files[issued[j].id].expiresAt

\* C12 (eventual expiry): a run of the sweep timer at a time later than an
\* entry's expiresAt removes that entry, and with the timer firing again and
\* again every entry of the index is eventually removed, read or not.
C12_EventualExpiry ==
  /\ [][last'.op = "sweep"
          => \A id \in DOMAIN files :
               now > files[id].expiresAt => id \notin DOMAIN files']_vars
  /\ \A id \in Ids : (id \in DOMAIN files) ~> (id \notin DOMAIN files)

\* the timer's sweep emptied the index of files that were saved at different
\* times and never read
C12_Witness ==
  /\ last.op = "sweep"
  /\ Len(issued) = MaxIds
  /\ DOMAIN files = {}
  /\ issued[MaxIds].createdAt > issued[1].createdAt
  /\ \A i \in 1 .. Len(issued) : now > issued[i].createdAt + maxFileAge

\* C13 (fixed TTL): every index entry has expiresAt = createdAt + 24h, with the
\* createdAt of its save, for as long as it is in the index; a getFile that
\* finds the file changes neither the index nor the disk and reports that same
\* expiresAt, so reading never extends a file's life.
C13_FixedTTL ==
  /\ \A id \in DOMAIN files :
       /\ files[id].expiresAt = files[id].createdAt + maxFileAge
       /\ \E i \in 1 .. Len(issued) :
            issued[i].id = id /\ files[id].createdAt = issued[i].createdAt
  /\ \A id \in Ids : \A unlinkOk \in BOOLEAN :
       LET r == getFile(Store, id, now, unlinkOk)
       IN  r.branch = "found"
             => /\ r.files = files
                /\ r.disk = disk
                /\ r.result.expiresAt = files[id].createdAt + maxFileAge
  /\ (last.op = "getFile" /\ last.outcome = "found")
       => \E i \in 1 .. Len(issued) :
            /\ issued[i].id = last.id
            /\ files[last.id].expiresAt = issued[i].createdAt + maxFileAge

\* a file was read some time after it was saved and is still due at the same
\* instant
C13_Witness ==
  /\ last.op = "getFile" /\ last.outcome = "found"
  /\ last.id \in DOMAIN files
  /\ now > files[last.id].createdAt
  /\ now < files[last.id].expiresAt
  /\ files[last.id].expiresAt = files[last.id].createdAt + maxFileAge

\* C14 (out-of-schedule sweeps are unobservable to readers): of two
\* FileManagers given the same saveFile and getFile calls at the same times, one
\* of which also runs cleanupExpiredFiles at arbitrary points, getFile returns
\* the same result for every id at every moment.
C14_SweepsUnobservable ==
  \A id \in Ids : \A unlinkOk \in BOOLEAN, unlinkOk0 \in BOOLEAN :
    getFile(Store, id, now, unlinkOk).result = getFile(twin, id, now, unlinkOk0).result

\* a file was read and found just after an extra sweep had removed another,
\* expired entry that the FileManager without extra sweeps still holds
C14_Witness ==
  /\ last.op = "getFile" /\ last.outcome = "found"
  /\ last.id \in DOMAIN twin.files
  /\ \E id \in DOMAIN twin.files :
       /\ id \notin DOMAIN files
       /\ now > twin.files[id].expiresAt

\* the issued records whose entry is in the index
Indexed == {i \in 1 .. Len(issued) : issued[i].id \in DOMAIN files}

RECURSIVE IssuedBytes(_)
IssuedBytes(is) ==
  IF is = {} THEN 0
  ELSE LET i == CHOOSE x \in is : TRUE
       IN  Len(issued[i].buffer) + IssuedBytes(is \ {i})

\* C15 (stats snapshot): getStats reports as totalFiles the number of index
\* entries, expired ones not yet swept included, as expiredFiles the number of
\* entries whose save is more than 24h old, and as totalSize the bytes saved
\* under the ids still in the index; expiredFiles <= totalFiles; the call
\* changes nothing.
C15_StatsSnapshot ==
  /\ [](LET s == getStats(Store, now)
        IN  /\ s.totalFiles = Cardinality(Indexed)
            /\ s.expiredFiles
                 = Cardinality({i \in Indexed : now > issued[i].createdAt + maxFileAge})
            /\ s.totalSize = IssuedBytes(Indexed)
            /\ s.expiredFiles <= s.totalFiles)
  /\ [][last'.op = "getStats"
          => /\ files' = files /\ disk' = disk
             /\ getStats([files |-> files', disk |-> disk'], now') = getStats(Store, now)]_vars

\* getStats was called while the index held two files, one of them expired and
\* not yet swept
C15_Witness ==
  /\ last.op = "getStats"
  /\ getStats(Store, now).totalFiles = 2
  /\ getStats(Store, now).expiredFiles = 1
  /\ getStats(Store, now).totalSize = 3

\* issued records i and j come from requests with identical input
SameInput(i, j) ==
  /\ issued[i].format = issued[j].format
  /\ issued[i].fileName = issued[j].fileName
  /\ issued[i].buffer = issued[j].buffer

\* C16 (no deduplication): each successful POST /convert adds one new index
\* entry under a fresh id and leaves the others alone, also when an earlier or
\* concurrent request had identical input; the two entries have distinct ids
\* and distinct backing files, and while both are live each is returned with
\* its own record, also after the other has been deleted.
C16_NoDeduplication ==
  /\ [](\A i, j \in 1 .. Len(issued) :
          (i # j /\ SameInput(i, j))
            => LET a == issued[i].id
                   b == issued[j].id
               IN  /\ a # b
                   /\ (a \in DOMAIN files /\ b \in DOMAIN files)
                        => files[a].filePath # files[b].filePath
                   /\ (a \in DOMAIN files /\ b \in DOMAIN files
                         /\ ~isExpired(files[a], now) /\ ~isExpired(files[b], now)
                         /\ OnDisk(issued[i]) /\ OnDisk(issued[j]))
                        => \A ok1, ok2 \in BOOLEAN :
                             /\ Retrieve(a, ok1).found
                             /\ Retrieve(b, ok1).found
                             /\ Retrieve(a, ok1).createdAt = issued[i].createdAt
                             /\ getFile(deleteFile(Store, a, ok1), b, now, ok2).result
                                  = Retrieve(b, ok2))
  /\ [][(last'.op = "convert" /\ last'.status = 200)
          => /\ last'.id \notin DOMAIN files
             /\ DOMAIN files' = (DOMAIN files) \cup {last'.id}
             /\ \A id \in DOMAIN files : files'[id] = files[id]
             /\ Len(issued') = Len(issued) + 1]_vars

\* the second of two requests with identical input succeeded while the first
\* one's file is still stored
C16_Witness ==
  /\ last.op = "convert" /\ last.status = 200
  /\ Len(issued) = 2
  /\ SameInput(1, 2)
  /\ issued[2].id = last.id
  /\ issued[1].id \in DOMAIN files
  /\ issued[2].id \in DOMAIN files
  /\ OnDisk(issued[1])

\* a supplied numeric parameter lies outside [lo, hi] (in hundredths)
OutOfRange(x, lo, hi) == x.t = "num" /\ (x.v < lo \/ x.v > hi)
InRange(x, lo, hi) == x.t = "undefined" \/ (x.t = "num" /\ x.v >= lo /\ x.v <= hi)

\* depth outside [0.1, 10], size outside [1, 1000], curveSegments outside [4, 256]
ParamOutOfRange(rq) ==
  \/ OutOfRange(rq.depth, 10, 1000)
  \/ OutOfRange(rq.size, 100, 100000)
  \/ OutOfRange(rq.curveSegments, 400, 25600)

ParamsInRange(rq) ==
  /\ InRange(rq.depth, 10, 1000)
  /\ InRange(rq.size, 100, 100000)
  /\ InRange(rq.curveSegments, 400, 25600)

\* the request was turned away by validation: answered 400 before any stage ran
Rejected400(r) == pc[r] = "answered" /\ req[r].status = 400 /\ req[r].reached = {}

\* C17 (validation boundaries): a request with a supplied depth outside
\* [0.1, 10], size outside [1, 1000] or curveSegments outside [4, 256] is
\* answered 400 and goes no further, and a request with a valid inline document
\* and a registered format whose supplied parameters are all within these
\* ranges is not turned away.
C17_ValidationBoundaries ==
  \A r \in Reqs :
    pc[r] # "idle"
      => /\ ParamOutOfRange(req[r].rq) => Rejected400(r)
         /\ (ParamsInRange(req[r].rq) /\ req[r].rq.svgData = "good"
               /\ req[r].rq.format \in {"undefined", "stl", "gltf"})
              => ~Rejected400(r)

\* the request names a format that is no key of the registered format table
Unregistered(rq) == rq.format \notin {"undefined", ""} \cup supportedFormats

\* C18 (validation precedes all processing): a request with an out-of-range
\* depth, size or curveSegments or an unregistered format, whatever its source
\* kind, never reaches bitmap tracing, SVG parsing or model building.
C18_ValidationFirst ==
  \A r \in Reqs :
    (pc[r] # "idle" /\ (ParamOutOfRange(req[r].rq) \/ Unregistered(req[r].rq)))
      => /\ pc[r] \notin {"tracing", "converting"}
         /\ req[r].reached \cap {"trace", "extract", "build"} = {}

\* C19 (unsupported format): a request whose format is no key of the
\* registered format table {stl, gltf} is answered 400, and no shape
\* extraction, model building or file save is performed for it.
C19_UnsupportedFormat ==
  \A r \in Reqs :
    (pc[r] # "idle" /\ Unregistered(req[r].rq))
      => /\ pc[r] # "converting"
         /\ req[r].reached \cap {"extract", "build", "export", "save"} = {}
         /\ pc[r] = "answered" => req[r].status = 400
         /\ Len(issued) = req[r].saved /\ DOMAIN disk = req[r].paths

\* the request carries neither an uploaded file nor inline svgData
MissingSource(rq) == rq.svgData = "absent" /\ rq.file = "absent"

\* no stage of the pipeline ran for the request and the store gained nothing
NothingDone(r) ==
  /\ req[r].reached = {}
  /\ Len(issued) = req[r].saved
  /\ DOMAIN disk \subseteq req[r].paths
  /\ DOMAIN files \subseteq {issued[i].id : i \in 1 .. req[r].saved}

C21_InvalidSvgRejected ==
  \A r \in Reqs :
    (pc[r] # "idle" /\ req[r].rq.file # "raster")
      => /\ (req[r].doc # "absent" /\ ~isValidSvg(req[r].doc)) => Rejected400(r)
         /\ "extract" \in req[r].reached => isValidSvg(req[r].doc)

\* ------------------------------------------- the footprint of a built model

\* a JavaScript number that came out of a division: a ratio n / d with d > 0,
\* an infinity, or NaN
Ratio(n, d) == [t |-> "ratio", n |-> n, d |-> d]
Infinite == [t |-> "inf", n |-> 0, d |-> 1]
NaN == [t |-> "nan", n |-> 0, d |-> 1]

\* a / b, for a request number a and an extent b >= 0
Divide(a, b) ==
  IF a.t # "num" THEN NaN
  ELSE IF b = 0 THEN (IF a.v = 0 THEN NaN ELSE Infinite)
  ELSE Ratio(a.v, b)

\* x * s, for an integer x and a quotient s (the sign of an infinity is not kept)
Times(x, s) ==
  IF s.t = "nan" THEN NaN
  ELSE IF s.t = "inf" THEN (IF x = 0 THEN NaN ELSE Infinite)
  ELSE Ratio(x * s.n, s.d)

\* p + q, for two quotients of the same division
Plus(p, q) ==
  IF p.t = "nan" \/ q.t = "nan" THEN NaN
  ELSE IF p.t = "inf" \/ q.t = "inf" THEN NaN
  ELSE Ratio(p.n + q.n, p.d)

\* |p|
Magnitude(p) == IF p.t = "ratio" /\ p.n < 0 THEN Ratio(0 - p.n, p.d) ELSE p

Max(a, b) == IF a >= b THEN a ELSE b
Min(a, b) == IF a <= b THEN a ELSE b

\* the bounding boxes of extruded shapes, in SVG units, and the depth of the
\* extrusion in hundredths
MeshBoxes ==
  [minX : {-2, 0}, maxX : {4, 6}, minY : {-2, 0}, maxY : {3, 6}, depth : {200}]

\* the models create3DModel hands to scaleAndCenterModel: at most MaxMeshes meshes
Groups == UNION {[1 .. n -> MeshBoxes] : n \in 0 .. MaxMeshes}

\* options.size as the handler passes it: parseFloat of a validated size, or of
\* whatever a raster upload carried
TargetSizes == {Num(100), Num(3700), Num(100000), Num(0), Num(-500), NotANumber}

\* new Box3().setFromObject(modelGroup), before any scaling
RECURSIVE boxOf(_, _)
boxOf(group, i) ==
  IF i = Len(group) THEN group[i]
  ELSE LET rest == boxOf(group, i + 1)
       IN  [minX |-> Min(group[i].minX, rest.minX), maxX |-> Max(group[i].maxX, rest.maxX),
            minY |-> Min(group[i].minY, rest.minY), maxY |-> Max(group[i].maxY, rest.maxY),
            depth |-> Max(group[i].depth, rest.depth)]

\* a group as created: scale (1, 1, 1) and position (0, 0, 0); the position is
\* kept doubled so that the centre of a box is a whole number
Unscaled ==
  [scale |-> [x |-> Ratio(1, 1), y |-> Ratio(1, 1), z |-> 1],
   position2 |-> [x |-> Ratio(0, 1), y |-> Ratio(0, 1), z |-> 0]]

\* scaleAndCenterModel(modelGroup, targetSize): the group's scale and position
scaleAndCenterModel(group, targetSize) ==
  IF Len(group) = 0 THEN Unscaled
  ELSE LET box == boxOf(group, 1)
           maxDimension == Max(box.maxX - box.minX, box.maxY - box.minY)
           scaleFactor == Divide(targetSize, maxDimension)
       IN  [scale |-> [x |-> scaleFactor, y |-> scaleFactor, z |-> 1],
            position2 |-> [x |-> Times(0 - (box.minX + box.maxX), scaleFactor),
                           y |-> Times(0 - (box.minY + box.maxY), scaleFactor),
                           z |-> 0]]

\* create3DModel, up to its call of scaleAndCenterModel
BuildGroup(r) ==
  /\ pc[r] = "idle"
  /\ \E group \in Groups, size \in TargetSizes :
       req' = [req EXCEPT ![r] = [group |-> group, size |-> size, placed |-> Unscaled]]
  /\ pc' = [pc EXCEPT ![r] = "grouped"]
  /\ last' = [NoLast EXCEPT !.op = "create3DModel"]
  /\ UNCHANGED <<files, disk, now, drawn, issued, removed, ticks, twin, three>>

\* this.scaleAndCenterModel(group, size)
ScaleAndCenter(r) ==
  /\ pc[r] = "grouped"
  /\ req' = [req EXCEPT ![r].placed = scaleAndCenterModel(req[r].group, req[r].size)]
  /\ pc' = [pc EXCEPT ![r] = "scaled"]
  /\ last' = [NoLast EXCEPT !.op = "scaleAndCenterModel"]
  /\ UNCHANGED <<files, disk, now, drawn, issued, removed, ticks, twin, three>>

\* create3DModel returns the group
BuildReturn(r) ==
  /\ pc[r] = "scaled"
  /\ pc' = [pc EXCEPT ![r] = "idle"]
  /\ req' = [req EXCEPT ![r] = EmptyMap]
  /\ last' = NoLast
  /\ UNCHANGED <<files, disk, now, drawn, issued, removed, ticks, twin, three>>

NextBuild ==
  \/ BuildGroup(1)
  \/ ScaleAndCenter(1)
  \/ BuildReturn(1)

SpecBuild == Init /\ [][NextBuild]_vars

\* ---------------------------------------------- properties of a conversion

\* the conversions in progress or just returned
Conversions == {r \in Reqs : pc[r] \in {"exporting", "returned"}}

\* a document that parses into no path at all
ZeroPaths(svgData) == svgData.parses /\ Len(svgData.paths) = 0

\* the causes of an extraction error
ExtractionCauses == {"Failed to parse SVG", "No valid shapes found"}

\* C22 (empty-document fallback): for a document that parses into zero paths,
\* whatever drawFillShapes and drawStrokes are, the extracted list is exactly
\* the one fallback shape, the conversion never ends in an extraction error,
\* and a conversion that returns (its build and its export did not fail)
\* returns a non-empty output.
C22_EmptyDocumentFallback ==
  \A r \in Conversions :
    LET f == req[r]
    IN  ZeroPaths(f.svgData)
          => /\ ~f.shapes.null
             /\ Len(f.shapes.val) = 1
             /\ f.shapes.val[1].path = 0
             /\ f.cause \notin ExtractionCauses
             /\ f.outcome.kind = "error"
                  => f.cause \in {"build failed", "export failed", "Unsupported format"}
             /\ (pc[r] = "returned" /\ f.outcome.kind # "error")
                  => (f.outcome.kind = "result" /\ f.outcome.bytes # <<>>)

C22_Witness ==
  /\ pc[1] = "returned"
  /\ ZeroPaths(req[1].svgData)
  /\ ~req[1].options.drawFillShapes
  /\ req[1].options.drawStrokes
  /\ req[1].outcome.kind = "result"
  /\ req[1].outcome.bytes # <<>>

\* the stages of a conversion, each with its start and its end, and the moment
\* the caller is given the result or the error
StageOrder ==
  <<"extract", "extracted", "build", "built", "export", "exported",
    "release", "released", "settled">>

\* the place of an event in StageOrder
StageIndex(ev) == CHOOSE i \in 1 .. Len(StageOrder) : StageOrder[i] = ev

\* C26 (pipeline ordering): within one conversion the stages run in the order
\* extract, build, export, release, each starting only after the previous one
\* ended; the release starts only after the export, the callback-completed
\* glTF export included, has ended; and the caller is given either the whole
\* of the exported bytes or an error.
C26_PipelineOrdering ==
  \A r \in Conversions :
    LET f == req[r]
        in(ev) == \E i \in 1 .. Len(f.log) : f.log[i] = ev
    IN  /\ \A i, j \in 1 .. Len(f.log) :
             i < j => StageIndex(f.log[i]) < StageIndex(f.log[j])
        /\ in("build") => in("extracted")
        /\ in("export") => in("built")
        /\ (in("release") /\ in("export")) => in("exported")
        /\ in("settled") => in("released")
        /\ in("settled") <=> f.outcome.kind # "pending"
        /\ f.outcome.kind = "result"
             => /\ in("exported")
                /\ f.promise = "fulfilled"
                /\ f.outcome.bytes = exportModel(f.options.format)
        /\ f.outcome.kind \in {"pending", "result", "error"}

C26_Witness ==
  /\ pc[1] = "returned"
  /\ req[1].options.format = "gltf"
  /\ req[1].outcome.kind = "result"
  /\ req[1].log = StageOrder

\* C27 (unconditional cleanup): on every exit path of convertSvgTo3D, once the
\* result or the error has reached the caller every geometry and material
\* created for the call has been disposed and the group holds no mesh.
C27_UnconditionalCleanup ==
  \A r \in Conversions :
    LET f == req[r]
    IN  f.outcome.kind # "pending"
          => /\ \A id \in createdBy(r) : three.objects[id] = Disposed
             /\ f.modelGroup.null \/ f.modelGroup.val = <<>>

C33_NoShapesPrecondition ==
  \A r \in Conversions :
    LET f == req[r]
        in(ev) == \E i \in 1 .. Len(f.log) : f.log[i] = ev
    IN  /\ in("build") => (~f.shapes.null /\ Len(f.shapes.val) > 0)
        /\ (~f.shapes.null /\ f.shapes.val = <<>>)
             => /\ f.cause = "No valid shapes found"
                /\ f.outcome.kind = "error"
                /\ ~in("build")
                /\ ~in("export")
        /\ in("export") => createdBy(r) # {}

\* ------------------------------------------ properties of failed requests

\* the requests that have been answered
Answered == {r \in Reqs : pc[r] = "answered"}

\* the failure was raised by extraction, by the encoder, by the format lookup
ExtractionFailure(err) == err.message \cap ExtractionCauses # {}
ExportFailure(err) == "export failed" \in err.message
FormatFailure(err) == "Unsupported format" \in err.message

\* C23 (status of conversion failures): a /convert request that fails in
\* extraction (the document cannot be parsed, or it yields no usable shape) or
\* in export is answered 422; one that fails validation or names an
\* unsupported format is answered 400; one that fails otherwise (tracing,
\* saving) is answered 500.
C23_FailureStatus ==
  \A r \in Answered :
    LET err == req[r].error
    IN  /\ (ExtractionFailure(err) \/ ExportFailure(err)) => req[r].status = 422
        /\ FormatFailure(err) => req[r].status = 400
        /\ (parseRequest(req[r].rq) = NoError /\ validateSvg(req[r].rq) = 400)
             => req[r].status = 400
        /\ err \in {TraceError, WriteError} => req[r].status = 500

\* the request's uploaded file or body, or the SVG text traced from its image,
\* is over the 5 MB limit
Oversize(r) == req[r].rq.big \/ req[r].doc = "tracedTooLarge"

\* the request has stored nothing
NothingStored(r) == Len(issued) = req[r].saved /\ DOMAIN disk \subseteq req[r].paths

\* C24 (oversize input): a /convert request whose uploaded file, body or SVG
\* text exceeds the size limit is answered 413, and no extraction, build,
\* export or save is performed for it.
C24_OversizeInput ==
  \A r \in Reqs :
    (pc[r] # "idle" /\ Oversize(r))
      => /\ pc[r] = "answered"
         /\ req[r].status = 413
         /\ req[r].reached \subseteq {"trace"}
         /\ NothingStored(r)

\* C25 (structured errors): every failure response is a JSON object carrying
\* an error kind, a message, a timestamp and the originating path and method,
\* and never a stack trace.
C25_StructuredErrors ==
  \A r \in Answered :
    req[r].status >= 400
      => /\ {"error", "message", "timestamp", "path", "method"} \subseteq req[r].body
         /\ "stack" \notin req[r].body

\* C28 (memory backpressure): a /convert request is answered 503 only when
\* heap usage was above the critical threshold both on entry and again after
\* the cleanup pass; the cleanup pass ran before the rejection; and the
\* rejected request reached no stage and stored no file.
C28_MemoryBackpressure ==
  \A r \in Reqs :
    (pc[r] # "idle" /\ req[r].status = 503)
      => /\ req[r].heap = <<"critical", "critical">>
         /\ req[r].cleaned
         /\ req[r].body = responseBody("memory")
         /\ NothingDone(r)

C28_Witness ==
  /\ pc[1] = "answered"
  /\ req[1].status = 503
  /\ req[1].rq.svgData = "good"
  /\ req[1].cleaned
  /\ Len(issued) > 0

\* the stages of convertSvgTo3D and the save that follows it
AfterTrace == {"extract", "build", "export", "save"}

\* C29 (raster path): for an uploaded image that is not SVG, tracing runs and
\* has completed before any extraction; the traced document then goes through
\* the size check, the conversion and the save as an inline document does; and
\* when tracing fails the request ends in an error with no extraction, no
\* build and no file stored.
C29_RasterPath ==
  \A r \in Reqs :
    (pc[r] # "idle" /\ req[r].rq.file = "raster" /\ req[r].reached # {})
      => /\ "trace" \in req[r].reached
         /\ req[r].doc \in {"traced", "tracedTooLarge"}
         /\ pc[r] = "tracing" => req[r].reached = {"trace"}
         /\ req[r].error = TraceError
              => /\ pc[r] = "answered"
                 /\ req[r].status >= 400
                 /\ req[r].reached = {"trace"}
                 /\ NothingStored(r)
         /\ req[r].doc = "tracedTooLarge"
              => (req[r].status = 413 /\ req[r].reached = {"trace"})
         /\ req[r].status = 200
              => /\ req[r].reached = {"trace"} \cup AfterTrace
                 /\ Len(issued) = req[r].saved + 1
                 /\ issued[Len(issued)].format = req[r].format
                 /\ issued[Len(issued)].buffer = exportModel(req[r].format)

C29_Witness ==
  /\ pc[1] = "answered"
  /\ req[1].rq.file = "raster"
  /\ req[1].status = 200
  /\ req[1].reached = {"trace"} \cup AfterTrace

\* ------------------------------------------- properties of the built model

\* a quotient that is the whole number v
IsNumber(p, v) == p.t = "ratio" /\ p.n = v * p.d

\* C31 (footprint normalization): for a built model with at least one mesh the
\* scale factor is targetSize / max(bboxWidth, bboxHeight), applied to X and Y
\* only, so that the longer X/Y extent of the scaled model is targetSize, its
\* Z extent is the one it had, and the X/Y centre of its bounding box is at
\* the origin.
C31_FootprintNormalization ==
  \A r \in Reqs :
    (pc[r] = "scaled" /\ Len(req[r].group) >= 1)
      => LET box == boxOf(req[r].group, 1)
             longer == Max(box.maxX - box.minX, box.maxY - box.minY)
             placed == req[r].placed
             extent == Magnitude(Times(longer, placed.scale.x))
             centreX2 == Plus(placed.position2.x, Times(box.minX + box.maxX, placed.scale.x))
             centreY2 == Plus(placed.position2.y, Times(box.minY + box.maxY, placed.scale.y))
         IN  /\ placed.scale.x = Divide(req[r].size, longer)
             /\ placed.scale.y = placed.scale.x
             /\ placed.scale.z = 1
             /\ placed.position2.z = 0
             /\ req[r].size.t = "num"
             /\ IsNumber(extent, req[r].size.v)
             /\ IsNumber(centreX2, 0)
             /\ IsNumber(centreY2, 0)

\* a number with a fractional part
Fractional(x) == x.t = "num" /\ x.v % 100 # 0

\* C32 (integer curve resolution): a request whose curveSegments is not an
\* integer is rejected with 400, so the curve resolution handed to the model
\* builder is the integer in [4, 256] that the client supplied, or the default.
C32_IntegerCurveResolution ==
  \A r \in Reqs :
    pc[r] # "idle"
      => LET supplied == req[r].rq.curveSegments
         IN  /\ Fractional(supplied) => Rejected400(r)
             /\ ("build" \in req[r].reached /\ supplied.t # "undefined")
                  => /\ parseInt(supplied) = supplied
                     /\ InRange(supplied, 400, 25600)

\* ------------------------------------------- properties of the temp directory

\* the paths saveFile can write to
BackingPaths == {filePath(id, format) : id \in Ids, format \in supportedFormats}

\* saveFile returned an id whose backing file is at this path
Saved(p) == \E i \in 1 .. Len(issued) : filePath(issued[i].id, issued[i].format) = p

\* C34 (disk reclamation): every backing file written by a saveFile call that
\* returned is eventually removed from the temp directory, by lazy expiry on
\* a read or by the hourly sweep; none stays on disk forever.
C34_DiskReclamation ==
  \A p \in BackingPaths : (Saved(p) /\ p \in DOMAIN disk) ~> (p \notin DOMAIN disk)

\* C35 (index/disk mirror): with nothing else changing the temp directory,
\* after any sequence of saveFile, getFile, deleteFile and cleanupExpiredFiles
\* calls the backing files on disk are exactly those of the ids in the index,
\* each entry's file is named <id>.<format>, and no two entries share a path.
C35_IndexDiskMirror ==
  /\ DOMAIN disk = {files[id].filePath : id \in DOMAIN files}
  /\ \A id \in DOMAIN files : files[id].filePath = filePath(id, files[id].format)
  /\ \A id, other \in DOMAIN files :
       files[id].filePath = files[other].filePath => id = other

\* C36 (reported expiry matches stored expiry): the expiresAt in the success
\* body of POST /convert is the expiresAt recorded in the store for the file
\* it announces, so that the file can be retrieved at every time up to the
\* reported one.
C36_ReportedExpiry ==
  \A r \in Answered :
    req[r].status = 200
      => LET saved == issued[Len(issued)]
         IN  /\ req[r].expiresAt = saved.createdAt + maxFileAge
             /\ saved.id \in DOMAIN files
                  => /\ req[r].expiresAt = files[saved.id].expiresAt
                     /\ ~isExpired(files[saved.id], req[r].expiresAt)

\* ------------------------------------ properties of concurrent conversions

\* what the call in slot r holds is its own: the shapes are those of its own
\* document and options, the objects of its model are the ones it created, and
\* what it was given follows from its own arguments
OwnInputOnly(r) ==
  LET f == req[r]
      own == createShapesFromSvg(f.svgData, ExtractOptions(f.options))
  IN  /\ ~f.shapes.null => (~own.threw /\ f.shapes.val = own.shapes)
      /\ ~f.modelGroup.null
           => \A i \in DOMAIN f.modelGroup.val : f.modelGroup.val[i] \in createdBy(r)
      /\ f.outcome.kind = "result" => f.outcome.bytes = exportModel(f.options.format)
      /\ f.cause = "Failed to parse SVG" => own.threw
      /\ f.cause = "No valid shapes found" => (~own.threw /\ own.shapes = <<>>)
      /\ f.cause = "Unsupported format" => ~getFormatConfig(f.options.format)

\* the model of a call suspended at its await is whole: one live mesh for each
\* extruded shape
ModelIntact(r) ==
  LET f == req[r]
  IN  /\ ~f.modelGroup.null
      /\ Len(f.modelGroup.val) = Cardinality(extruded(f.shapes.val))
      /\ \A i \in DOMAIN f.modelGroup.val :
           /\ f.modelGroup.val[i] \in DOMAIN three.objects
           /\ three.objects[f.modelGroup.val[i]] = Live

\* a step releases an object only when it is the step in which the call that
\* created the object runs its finally block or gives up its frame
ReleasesOwnOnly ==
  \A id \in DOMAIN three.objects :
    (three.objects[id] = Live
       /\ (id \notin DOMAIN three'.objects \/ three'.objects[id] = Disposed))
      => /\ pc[id[1]] # pc'[id[1]]
         /\ pc'[id[1]] \in {"returned", "idle"}

\* C37 (per-request resource isolation): with several conversions in flight on
\* the one converter, a cleanup releases only objects the cleaning call itself
\* created, the model of every call still awaiting its export stays whole and
\* live, and what each call holds and returns follows from its own document
\* and options alone.
C37_ResourceIsolation ==
  /\ [](\A r \in Conversions :
          /\ OwnInputOnly(r)
          /\ pc[r] = "exporting" => ModelIntact(r))
  /\ [][ReleasesOwnOnly]_vars

C37_Witness ==
  /\ pc[1] = "exporting"
  /\ req[1].promise = "pending"
  /\ pc[2] = "returned"
  /\ req[2].options.format = "gltf"
  /\ req[2].outcome.kind = "result"
  /\ req[2].svgData # req[1].svgData
  /\ createdBy(1) # {}
  /\ createdBy(2) # {}
  /\ \A id \in createdBy(1) : three.objects[id] = Live
  /\ \A id \in createdBy(2) : three.objects[id] = Disposed
  /\ three.exporters.gltf

====
